---- MODULE Spec2Model ----
(***************************************************************************)
(* Graphine (graph/base.py): the Graph store with its adjacency tracking   *)
(* and the selector-driven traversal engine.                               *)
(*                                                                         *)
(* Python objects are modelled as identities <<type, name, serial>>:       *)
(* type is "n" for a Node and "e" for an Edge, name is the element's       *)
(* _name, and serial tells apart objects that carry the same name (a node  *)
(* replaced by add_node lives on while edges still point at it).  The heap *)
(* keeps exactly the objects the graph can still reach.                    *)
(***************************************************************************)
EXTENDS Integers, Sequences, FiniteSets, TLC

\* ----------------------------------------------------------------- bounds
\* number of names add_node draws from
MaxNodes == 2
\* number of names add_edge draws from
MaxEdges == 2
\* calls of add_node/add_edge that may be given a name already in use
MaxReuse == 1

\* nodes and edges of the graphs the traversals run on
TravNodes == 4
TravEdges == 3
TravRoots == 1
LoopNodes == 3
LoopEdges == 3

\* graphs and weights get_shortest_paths runs on: weights 0..MaxWeight
PathNodes == 3
PathEdges == 3
MaxWeight == 2
\* graphs and weights get_shortest_paths is run on with negative weights:
\* weights -NegWeight..NegWeight, a run being cut when a distance falls
\* below -MaxDebt
NegNodes == 2
NegEdges == 3
NegWeight == 1
MaxDebt == 2
\* graphs and weights get_shortest_paths is run to its end on: weights
\* 0..EndWeight
EndNodes == 3
EndEdges == 2
EndWeight == 1
\* float("inf")
Inf == 999

\* graphs the components are taken of and that are transposed
CompNodes == 3
CompEdges == 3
\* graphs an edge is moved in
MoveNodes == 3
MoveEdges == 2

\* live objects that may carry the same name at one time
ConNodes == 3
ConEdges == 2
AlgNodes == 2
AlgEdgeNames == 2
AlgEdges == 1
AlgData == 1
WalkNodes == 2
WalkEdges == 2
MaxWalk == 3
\* serials of one name: two operands and a result hold up to four objects of it
\* the graphs that are searched: names of the nodes, values of the one
\* attribute, objects made in all; the edges are named from the last node
\* name on, so that an edge may carry the name of a node
SearchNodes == 2
SearchEdgeNames == 2
SearchValues == 2
SearchObjects == 3

\* the graphs a depth-first traversal from node 1 runs on
DfsNodes == 4
DfsEdges == 4

\* nodes and stored edges of the acyclic graphs
DagNodes == 3
DagEdges == 3

\* calls of the graph made by the consumer of a generator
MaxBeside == 1

MaxGen == MaxReuse + 3

NodeNames == 1..MaxNodes
EdgeNames == (MaxNodes + 1)..(MaxNodes + MaxEdges)
Names == NodeNames \cup EdgeNames


None == <<"none", 0, 0>>

VARIABLES
    g,        \* the Graph: heap of Node and Edge objects, _nodes, _edges
    last,     \* the last call: operation, name given, exception, size() before it
    reuses,   \* calls of add_node/add_edge so far that were given a name in use
    tr,       \* the heuristic_traversal generator being consumed, if any
    sp,       \* the get_shortest_paths call in progress, if any
    al,       \* two operand graphs in one heap and the result of an operation on them
    wk,       \* the walk_nodes generator being driven, if any
    dag       \* a DirectedAcyclicGraph of the container-based Graph

vars == <<g, last, reuses, tr, sp, al, wk, dag>>

\* ------------------------------------------------------- element identity
IsNode(o) == o[1] = "n"
IsEdge(o) == o[1] = "e"
name(o) == o[2]

\* o.name can be read: a Node or an Edge has a name, a name has none
HasName(o) == IsNode(o) \/ IsEdge(o)

\* GraphElement.__eq__: same type and same name
ElemEq(a, b) == a[1] = b[1] /\ a[2] = b[2]

\* x in list / list.index(x) under __eq__; 0 when absent
ListIndex(l, x) ==
    IF \E i \in 1..Len(l) : ElemEq(l[i], x)
    THEN CHOOSE i \in 1..Len(l) : ElemEq(l[i], x) /\ \A j \in 1..(i-1) : ~ElemEq(l[j], x)
    ELSE 0

ListContains(l, x) == ListIndex(l, x) # 0

\* list.remove(x): drops the first entry equal to x (the caller checks presence)
ListRemove(l, x) ==
    LET i == ListIndex(l, x)
    IN  [k \in 1..(Len(l) - 1) |-> IF k < i THEN l[k] ELSE l[k + 1]]

\* number of entries of l that are the object x itself
CountIs(l, x) == Cardinality({i \in 1..Len(l) : l[i] = x})

\* list(set(l)) keeps one entry per __eq__ class: the first one met
RECURSIVE Dedup(_)
Dedup(l) ==
    IF l = <<>> THEN <<>>
    ELSE LET init == Dedup(SubSeq(l, 1, Len(l) - 1))
             x == l[Len(l)]
         IN  IF ListContains(init, x) THEN init ELSE Append(init, x)

Range(f) == {f[x] : x \in DOMAIN f}

\* the orders in which the entries of l may be iterated when Python keeps
\* them in a set, or in a list built from one
Orders(l) ==
    {[i \in 1..Len(l) |-> l[p[i]]] :
        p \in {q \in [1..Len(l) -> 1..Len(l)] : \A i, j \in 1..Len(l) : i # j => q[i] # q[j]}}

\* dict assignment d[k] = v
DictSet(d, k, v) == [x \in (DOMAIN d) \cup {k} |-> IF x = k THEN v ELSE d[x]]
\* dict.pop(k)
DictPop(d, k) == [x \in (DOMAIN d) \ {k} |-> d[x]]
Empty == [x \in {} |-> None]

\* the keys of a dict in the order it keeps them, the order of insertion:
\* d[k] = v puts a new key at the end and leaves a key it has in its place
KeySet(keys, k) == IF \E i \in 1..Len(keys) : keys[i] = k THEN keys ELSE Append(keys, k)
\* dict.pop(k) takes the key out of the order
KeyPop(keys, k) == SelectSeq(keys, LAMBDA x : x # k)

\* ------------------------------------------------------------ the heap
\* Node.__init__
NewNode == [inc |-> <<>>, out |-> <<>>, bi |-> <<>>]

\* Edge.__init__
NewEdge(start, end, is_directed) == [start |-> start, end |-> end, directed |-> is_directed]

\* Graph.__init__: _nodes and _edges are dicts, gn and ge with the key orders
\* kn and ke
NewGraph == [nodes |-> Empty, edges |-> Empty, gn |-> Empty, ge |-> Empty,
             kn |-> <<>>, ke |-> <<>>]

Heap(G) == (DOMAIN G.nodes) \cup (DOMAIN G.edges)

\* a serial no live object of that type and name carries
CanAlloc(G, t, nm) == \E k \in 0..(MaxGen - 1) : <<t, nm, k>> \notin Heap(G)
Fresh(G, t, nm) ==
    LET k == CHOOSE k \in 0..(MaxGen - 1) :
                 /\ <<t, nm, k>> \notin Heap(G)
                 /\ \A j \in 0..(k - 1) : <<t, nm, j>> \in Heap(G)
    IN  <<t, nm, k>>

\* objects an object refers to
Refs(G, o) ==
    IF o \in DOMAIN G.nodes
    THEN Range(G.nodes[o].inc) \cup Range(G.nodes[o].out) \cup Range(G.nodes[o].bi)
    ELSE IF o \in DOMAIN G.edges THEN {G.edges[o].start, G.edges[o].end}
    ELSE {}

RECURSIVE Closure(_, _)
Closure(G, S) ==
    LET T == S \cup UNION {Refs(G, o) : o \in S}
    IN  IF T = S THEN S ELSE Closure(G, T)

\* objects no longer reachable from the graph are dropped from the heap
Collect(G) ==
    LET live == Closure(G, Range(G.gn) \cup Range(G.ge))
    IN  [G EXCEPT !.nodes = [o \in (DOMAIN G.nodes) \cap live |-> G.nodes[o]],
                  !.edges = [o \in (DOMAIN G.edges) \cap live |-> G.edges[o]]]

\* the serials of the live objects of one type and name are kept 0, 1, ...
\* in their order: an identity freed by the collector is handed out again
Rank(G, o) ==
    <<o[1], o[2], Cardinality({p \in Heap(G) : p[1] = o[1] /\ p[2] = o[2] /\ p[3] < o[3]})>>

MapSeq(G, l) == [i \in 1..Len(l) |-> Rank(G, l[i])]

Compact(G) ==
    [nodes |-> [q \in {Rank(G, o) : o \in DOMAIN G.nodes} |->
                   LET o == CHOOSE o \in DOMAIN G.nodes : Rank(G, o) = q
                   IN  [inc |-> MapSeq(G, G.nodes[o].inc),
                        out |-> MapSeq(G, G.nodes[o].out),
                        bi |-> MapSeq(G, G.nodes[o].bi)]],
     edges |-> [q \in {Rank(G, o) : o \in DOMAIN G.edges} |->
                   LET o == CHOOSE o \in DOMAIN G.edges : Rank(G, o) = q
                   IN  [start |-> Rank(G, G.edges[o].start),
                        end |-> Rank(G, G.edges[o].end),
                        directed |-> G.edges[o].directed]],
     gn |-> [nm \in DOMAIN G.gn |-> Rank(G, G.gn[nm])],
     ge |-> [nm \in DOMAIN G.ge |-> Rank(G, G.ge[nm])],
     kn |-> G.kn, ke |-> G.ke]

\* the graph a call leaves behind, as the next call finds it
Settle(G) == Compact(Collect(G))

\* ------------------------------------------------------ call results
Ok(G, ret) == [g |-> G, err |-> "none", ret |-> ret]
Raise(G, e) == [g |-> G, err |-> e, ret |-> None]

\* a reference handed to the API: a name, or an element, of which the graph
\* reads the name only
RefKinds == {"name", "elem"}
Ref(kind, nm) == <<kind, nm>>

\* Graph.get_element: edges are looked up first, then nodes
get_element(G, item) ==
    LET nm == item[2]
    IN  IF item[1] = "elem"
        THEN IF nm \in DOMAIN G.ge THEN Ok(G, G.ge[nm])
             ELSE IF nm \in DOMAIN G.gn THEN Ok(G, G.gn[nm])
             ELSE Raise(G, "KeyError")
        ELSE IF nm \in DOMAIN G.ge THEN Ok(G, G.ge[nm])
             ELSE IF nm \in DOMAIN G.gn THEN Ok(G, G.gn[nm])
             ELSE Raise(G, "KeyError")

\* Graph.__contains__ for a name
contains_name(G, nm) == nm \in DOMAIN G.gn \/ nm \in DOMAIN G.ge

\* Graph.order, Graph.size
order(G) == Cardinality(DOMAIN G.gn)
size(G) == Cardinality(DOMAIN G.ge)

\* Graph.__getitem__ for a name: nodes are looked up first, then edges
getitem(G, nm) ==
    IF nm \in DOMAIN G.gn THEN Ok(G, G.gn[nm])
    ELSE IF nm \in DOMAIN G.ge THEN Ok(G, G.ge[nm])
    ELSE Raise(G, "KeyError")

\* Node.outgoing without the bidirectional edges
node_outgoing_directed(G, node) == G.nodes[node].out

\* Node.incoming, Node.outgoing, Node.bidirectional
node_incoming(G, node) == G.nodes[node].inc \o G.nodes[node].bi
node_outgoing(G, node) == G.nodes[node].out \o G.nodes[node].bi
node_bidirectional(G, node) == G.nodes[node].bi

\* ListAppend with the entry in the end's incoming list forgotten
ListAppendNoIncoming(G, o, field, edge) ==
    IF ~IsNode(o) THEN Raise(G, "AttributeError")
    ELSE IF field = "inc" THEN Ok(G, None)
    ELSE Ok([G EXCEPT !.nodes[o][field] = Append(@, edge)], None)

\* o.<field>.append(edge); an Edge has no adjacency lists
ListAppend(G, o, field, edge) ==
    IF ~IsNode(o) THEN Raise(G, "AttributeError")
    ELSE Ok([G EXCEPT !.nodes[o][field] = Append(@, edge)], None)

\* o.<field>.remove(edge)
ListRemoveIn(G, o, field, edge) ==
    IF ~IsNode(o) THEN Raise(G, "AttributeError")
    ELSE IF ~ListContains(G.nodes[o][field], edge) THEN Raise(G, "ValueError")
    ELSE Ok([G EXCEPT !.nodes[o][field] = ListRemove(@, edge)], None)

\* run F on the graph r left, unless r raised
Then(r, F(_)) == IF r.err # "none" THEN r ELSE F(r.g)

\* the test "start is not end" of add_edge and remove_edge, dropped
IsNotDropped(a, b) == TRUE

\* the test "start is not end" that keeps an undirected loop from being
\* entered twice
is_not(a, b) == a # b

\* the truth value "x or y" tests: None and the name 0 are false, a Node or
\* an Edge is true (GraphElement defines neither __bool__ nor __len__)
Falsy(x) == x = None \/ (x[1] = "s" /\ x[2] = 0)

\* add_node that hands back the node already stored under the name
add_node_keep(G, nm) ==
    IF nm \in DOMAIN G.gn THEN Ok(G, G.gn[nm])
    ELSE LET node == Fresh(G, "n", nm)
         IN  Ok([G EXCEPT !.nodes = DictSet(@, node, NewNode),
                          !.gn = DictSet(@, nm, node), !.kn = KeySet(@, nm)], node)

\* Graph.add_node
add_node(G, nm) ==
    LET node == Fresh(G, "n", nm)
    IN  Ok([G EXCEPT !.nodes = DictSet(@, node, NewNode),
                     !.gn = DictSet(@, nm, node), !.kn = KeySet(@, nm)], node)

\* add_edge that stores the edge as soon as the start is resolved
add_edge_store_first(G, s, e, nm, is_directed) ==
    LET rs == get_element(G, s)
    IN  IF rs.err # "none" THEN rs
        ELSE
        LET start == rs.ret
            edge == Fresh(G, "e", nm)
            G0 == [G EXCEPT !.edges = DictSet(@, edge, NewEdge(start, start, is_directed)),
                            !.ge = DictSet(@, nm, edge), !.ke = KeySet(@, nm)]
            re == get_element(G0, e)
        IN  IF re.err # "none" THEN re
            ELSE
            LET end == re.ret
                G1 == [G0 EXCEPT !.edges[edge].end = end]
                r == IF is_directed
                     THEN Then(ListAppend(G1, start, "out", edge),
                               LAMBDA H : ListAppend(H, end, "inc", edge))
                     ELSE Then(ListAppend(G1, start, "bi", edge),
                               LAMBDA H : IF is_not(start, end)
                                          THEN ListAppend(H, end, "bi", edge)
                                          ELSE Ok(H, None))
            IN  IF r.err # "none" THEN r ELSE Ok(r.g, edge)

\* Graph.add_edge
add_edge(G, s, e, nm, is_directed) ==
    LET rs == get_element(G, s)
        re == get_element(G, e)
    IN  IF rs.err # "none" THEN rs
        ELSE IF re.err # "none" THEN re
        ELSE
        LET start == rs.ret
            end == re.ret
            edge == Fresh(G, "e", nm)
            G1 == [G EXCEPT !.edges = DictSet(@, edge, NewEdge(start, end, is_directed)),
                            !.ge = DictSet(@, nm, edge), !.ke = KeySet(@, nm)]
            r == IF is_directed
                 THEN Then(ListAppend(G1, start, "out", edge),
                           LAMBDA H : ListAppend(H, end, "inc", edge))
                 ELSE Then(ListAppend(G1, start, "bi", edge),
                           LAMBDA H : IF is_not(start, end) THEN ListAppend(H, end, "bi", edge)
                                      ELSE Ok(H, None))
        IN  IF r.err # "none" THEN r ELSE Ok(r.g, edge)

\* Graph.remove_edge
remove_edge(G, ref) ==
    LET r0 == get_element(G, ref)
    IN  IF r0.err # "none" THEN r0
        ELSE IF ~IsEdge(r0.ret) THEN Raise(G, "AttributeError")
        ELSE
        LET edge == r0.ret
            start == G.edges[edge].start
            end == G.edges[edge].end
            r == IF G.edges[edge].directed
                 THEN Then(ListRemoveIn(G, start, "out", edge),
                           LAMBDA H : ListRemoveIn(H, end, "inc", edge))
                 ELSE Then(ListRemoveIn(G, start, "bi", edge),
                           LAMBDA H : IF is_not(start, end) THEN ListRemoveIn(H, end, "bi", edge)
                                      ELSE Ok(H, None))
        IN  IF r.err # "none" THEN r
            ELSE Ok([r.g EXCEPT !.ge = DictPop(@, name(edge)), !.ke = KeyPop(@, name(edge))],
                    r.g.ge[name(edge)])

\* Node.edges without the set: a loop is listed as incoming and as outgoing
node_edges_list(G, node) == G.nodes[node].inc \o G.nodes[node].out \o G.nodes[node].bi

\* Node.edges without the bidirectional list
node_edges_directed(G, node) == Dedup(G.nodes[node].inc \o G.nodes[node].out)

\* Node.edges: list(set(incoming + outgoing + bidirectional)), one order of it
node_edges(G, node) == Dedup(G.nodes[node].inc \o G.nodes[node].out \o G.nodes[node].bi)

\* Node.degree
node_degree(G, node) == Len(node_edges(G, node))

\* the loop of remove_node over the edges in iteration order ord
RECURSIVE RemoveAll(_, _)
RemoveAll(G, ord) ==
    IF ord = <<>> THEN Ok(G, None)
    ELSE Then(remove_edge(G, Ref("elem", name(Head(ord)))),
              LAMBDA H : RemoveAll(H, Tail(ord)))

\* Graph.remove_node, with node.edges iterated in the order ord
remove_node(G, ref, ord) ==
    LET r0 == get_element(G, ref)
    IN  IF r0.err # "none" THEN r0
        ELSE IF ~IsNode(r0.ret) THEN Raise(G, "AttributeError")
        ELSE
        LET node == r0.ret
            r == RemoveAll(G, ord)
        IN  IF r.err # "none" THEN r
            ELSE IF name(node) \notin DOMAIN r.g.gn THEN Raise(r.g, "KeyError")
            ELSE Ok([r.g EXCEPT !.gn = DictPop(@, name(node)), !.kn = KeyPop(@, name(node))],
                    r.g.gn[name(node)])

\* the orders remove_node may iterate node.edges in for this argument
RemoveOrders(G, ref) ==
    LET r0 == get_element(G, ref)
    IN  IF r0.err = "none" /\ IsNode(r0.ret) THEN Orders(node_edges(G, r0.ret))
        ELSE {<<>>}

\* ------------------------------------------------------------ traversal
\* a name handed to the API where a node may be given.  Str(nm) is the very
\* object the elements named nm hold as their name; StrOther(nm) is equal to
\* it and is another object, as a name computed at run time is.
Str(nm) == <<"s", nm, 0>>
StrOther(nm) == <<"s", nm, 1>>

\* other_end that takes every edge for an undirected one
other_end_undirected(G, edge, starting_point) ==
    LET start == G.edges[edge].start
        end == G.edges[edge].end
    IN  IF starting_point = start THEN Ok(G, end)
        ELSE IF ~HasName(start) THEN Raise(G, "AttributeError")
        ELSE IF starting_point = Str(name(start)) THEN Ok(G, end)
        ELSE IF starting_point = end THEN Ok(G, start)
        ELSE IF ~HasName(end) THEN Raise(G, "AttributeError")
        ELSE IF starting_point = Str(name(end)) THEN Ok(G, start)
        ELSE Raise(G, "AttributeError")

\* Edge.other_end: the point is matched with "is", as the node object or as
\* the object that is its name; an equal name that is another object is no
\* endpoint.  The tests run in the order of the source, and reading .name
\* of an endpoint that is a name (left there by a move_edge that raised)
\* is an AttributeError
other_end(G, edge, starting_point) ==
    LET start == G.edges[edge].start
        end == G.edges[edge].end
    IN  IF starting_point = start THEN Ok(G, end)
        ELSE IF ~HasName(start) THEN Raise(G, "AttributeError")
        ELSE IF starting_point = Str(name(start)) THEN Ok(G, end)
        ELSE IF G.edges[edge].directed THEN Raise(G, "AttributeError")
        ELSE IF starting_point = end THEN Ok(G, start)
        ELSE IF ~HasName(end) THEN Raise(G, "AttributeError")
        ELSE IF starting_point = Str(name(end)) THEN Ok(G, start)
        ELSE Raise(G, "AttributeError")

\* the candidates get_adjacent looks at, in the order it meets them
AdjacentCandidates(G, node, outgoing, incoming) ==
    LET out == G.nodes[node].out
        inc == G.nodes[node].inc
        bi == G.nodes[node].bi
    IN  (IF outgoing THEN [i \in 1..Len(out) |-> G.edges[out[i]].end] ELSE <<>>)
        \o (IF incoming THEN [i \in 1..Len(inc) |-> G.edges[inc[i]].start] ELSE <<>>)
        \o (IF outgoing \/ incoming
            THEN [i \in 1..Len(bi) |-> other_end(G, bi[i], node).ret] ELSE <<>>)

\* get_adjacent that leaves out the bidirectional edges
get_adjacent_directed(G, node, outgoing, incoming) ==
    Ok(G, Dedup((IF outgoing
                 THEN [i \in 1..Len(G.nodes[node].out) |-> G.edges[G.nodes[node].out[i]].end]
                 ELSE <<>>)
                \o (IF incoming
                    THEN [i \in 1..Len(G.nodes[node].inc) |-> G.edges[G.nodes[node].inc[i]].start]
                    ELSE <<>>)))

\* get_adjacent that takes the incoming edges for the outgoing ones
get_adjacent_swapped(G, node, outgoing, incoming) ==
    Ok(G, Dedup(AdjacentCandidates(G, node, incoming, outgoing)))

\* Node.get_adjacent: a candidate is appended unless an equal node was seen
get_adjacent(G, node, outgoing, incoming) ==
    IF (outgoing \/ incoming)
       /\ \E i \in 1..Len(G.nodes[node].bi) : other_end(G, G.nodes[node].bi[i], node).err # "none"
    THEN Raise(G, "AttributeError")
    ELSE Ok(G, Dedup(AdjacentCandidates(G, node, outgoing, incoming)))

\* x in s for a Python set or list s of elements
InSet(S, x) == \E y \in S : ElemEq(y, x)
\* s.add(x)
SetAdd(S, x) == IF InSet(S, x) THEN S ELSE S \cup {x}

\* a selector that pops the end of the list whatever the traversal
selector_lifo(sel, discovered) == {Len(discovered)}

\* the selectors: depth_first_traversal pops the end of the discovered list,
\* breadth_first_traversal its front, a heuristic any one entry
Selectors == {"dfs", "bfs", "heur"}
selector(sel, discovered) ==
    IF sel = "dfs" THEN {Len(discovered)}
    ELSE IF sel = "bfs" THEN {1}
    ELSE 1..Len(discovered)

\* list.pop(i)
ListPop(l, i) == [k \in 1..(Len(l) - 1) |-> IF k < i THEN l[k] ELSE l[k + 1]]

\* the adjacent nodes taken without the filter against the visited ones
not_yet_visited_unfiltered(adjacent, visited) == Range(adjacent)

\* adjacent - visited
not_yet_visited(adjacent, visited) == {n \in Range(adjacent) : ~InSet(visited, n)}

\* the loop over not_yet_visited without its test "not in discovered"
DiscoverAgain(discovered, ord) == discovered \o ord

\* the loop "for node in not_yet_visited: if node not in discovered: append",
\* the set being iterated in the order ord
RECURSIVE Discover(_, _)
Discover(discovered, ord) ==
    IF ord = <<>> THEN discovered
    ELSE Discover(IF ListContains(discovered, Head(ord)) THEN discovered
                  ELSE Append(discovered, Head(ord)), Tail(ord))

SetOrders(S) == {p \in [1..Cardinality(S) -> S] : \A i, j \in 1..Cardinality(S) : i # j => p[i] # p[j]}

\* no generator: pc is "new" for a generator of which no line has run, "run"
\* for one suspended at "yield next", "done" for one that has returned, or
\* the exception that ended it
Idle == [pc |-> "idle", sel |-> "none", root |-> None, next |-> None,
         discovered |-> <<>>, visited |-> {}, yielded |-> <<>>, calls |-> 0]

Live(t) == t.pc \in {"new", "run"}

\* a call of heuristic_traversal(root, selector): it hands back a generator
\* and runs no line of the body
heuristic_traversal(root, sel) == [Idle EXCEPT !.pc = "new", !.sel = sel, !.root = root]

\* the lines before the loop, run by the first next(): root, the name or
\* element given, becomes the element it stands for in the graph as it is
\* then
traversal_start(G, t) ==
    LET r == get_element(G, t.root)
    IN  IF r.err # "none" THEN [t EXCEPT !.pc = r.err]
        ELSE [t EXCEPT !.pc = "run", !.root = r.ret, !.discovered = <<r.ret>>]

\* next.get_adjacent() for the node yielded last; an Edge has no such method
next_get_adjacent(G, next) ==
    IF ~IsNode(next) THEN Raise(G, "AttributeError") ELSE get_adjacent(G, next, TRUE, FALSE)

\* the orders the new neighbours of the node yielded last may be iterated in
VisitOrders(t, adj) ==
    IF adj.err # "none" THEN {<<>>}
    ELSE SetOrders(not_yet_visited(adj.ret, SetAdd(t.visited, t.next)))

\* the lines after "yield next", run when the generator is resumed: the node
\* is visited and of its neighbours adj, taken from the graph as it is then,
\* those that are new are discovered in the order ord
traversal_visit(t, adj, ord) ==
    IF adj.err # "none" THEN [t EXCEPT !.pc = adj.err, !.visited = SetAdd(@, t.next)]
    ELSE [t EXCEPT !.visited = SetAdd(@, t.next), !.discovered = Discover(@, ord)]

\* "next = selector(discovered); yield next", the selector taking entry i
traversal_yield(t, i) ==
    [t EXCEPT !.next = t.discovered[i], !.discovered = ListPop(@, i),
              !.yielded = Append(@, t.discovered[i])]

\* the generator runs on from the loop head: to the next yield, or to its end
traversal_loop(u) ==
    IF u.pc # "run" THEN {u}
    ELSE IF u.discovered = <<>> THEN {[u EXCEPT !.pc = "done"]}
    ELSE {traversal_yield(u, i) : i \in selector(u.sel, u.discovered)}

\* next(generator): the body runs from where it was suspended to the next
\* yield, or to its end; the ways the call may end
generator_next(G, t) ==
    IF t.pc = "new" THEN traversal_loop(traversal_start(G, t))
    ELSE UNION {UNION {traversal_loop(traversal_visit(t, adj, ord)) : ord \in VisitOrders(t, adj)} :
                adj \in {next_get_adjacent(G, t.next)}}

\* ------------------------------------------------------- shortest paths
\* the entry of a dict keyed by elements that x falls on
KeyOf(d, x) == IF InSet(DOMAIN d, x) THEN CHOOSE y \in DOMAIN d : ElemEq(y, x) ELSE x

\* paths[x] for the defaultdict paths: a missing key is entered with (inf, [])
paths_default(paths, x) ==
    IF InSet(DOMAIN paths, x) THEN paths ELSE DictSet(paths, x, <<Inf, <<>>>>)

\* (w1, n1) < (w2, n2) for the tuples of the heap
TupleLess(a, b) ==
    \/ a[1] < b[1]
    \/ a[1] = b[1] /\ ~ElemEq(a[2], b[2]) /\ name(a[2]) < name(b[2])

\* heapq.heappop: the index of a least tuple
HeapMin(heap) == CHOOSE i \in 1..Len(heap) : \A j \in 1..Len(heap) : ~TupleLess(heap[j], heap[i])

\* a relaxation that keeps the first path found to a node
relax_unreached(G, w, s, current, edge) ==
    LET oe == other_end(G, edge, current)
    IN  IF s.err # "none" THEN s
        ELSE IF oe.err # "none" THEN [s EXCEPT !.err = oe.err]
        ELSE LET p1 == paths_default(s.paths, oe.ret)
                 old == p1[KeyOf(p1, oe.ret)]
                 p2 == paths_default(p1, current)
                 cur == p2[KeyOf(p2, current)]
                 weight == cur[1] + w[name(edge)]
             IN  IF old[1] = Inf
                 THEN [paths |-> DictSet(p2, KeyOf(p2, oe.ret), <<weight, Append(cur[2], edge)>>),
                       unoptomized |-> Append(s.unoptomized, <<weight, oe.ret>>),
                       err |-> "none"]
                 ELSE [s EXCEPT !.paths = p2]

\* the body of "for edge in current.outgoing" for one edge; s holds paths,
\* the heap and the exception raised so far
relax(G, w, s, current, edge) ==
    LET oe == other_end(G, edge, current)
    IN  IF s.err # "none" THEN s
        ELSE IF oe.err # "none" THEN [s EXCEPT !.err = oe.err]
        ELSE LET p1 == paths_default(s.paths, oe.ret)
                 old == p1[KeyOf(p1, oe.ret)]
                 p2 == paths_default(p1, current)
                 cur == p2[KeyOf(p2, current)]
                 weight == cur[1] + w[name(edge)]
             IN  IF weight < old[1]
                 THEN [paths |-> DictSet(p2, KeyOf(p2, oe.ret), <<weight, Append(cur[2], edge)>>),
                       unoptomized |-> Append(s.unoptomized, <<weight, oe.ret>>),
                       err |-> "none"]
                 ELSE [s EXCEPT !.paths = p2]

RECURSIVE RelaxAll(_, _, _, _, _)
RelaxAll(G, w, s, current, edges) ==
    IF edges = <<>> THEN s
    ELSE CHOOSE r \in {RelaxAll(G, w, s1, current, Tail(edges)) :
                         s1 \in {relax(G, w, s, current, Head(edges))}} : TRUE

NoPaths == [pc |-> "idle", source |-> None, w |-> <<>>, paths |-> <<>>, unoptomized |-> <<>>]

\* a start that leaves the entry of the source to the defaultdict
get_shortest_paths_start_blank(G, source, w) ==
    LET r == get_element(G, source)
    IN  IF r.err # "none" THEN [NoPaths EXCEPT !.pc = r.err]
        ELSE [pc |-> "run", source |-> r.ret, w |-> w, paths |-> <<>>,
              unoptomized |-> <<<<0, r.ret>>>>]

\* get_shortest_paths up to its loop, get_weight giving edge e the weight w[e.name]
get_shortest_paths_start(G, source, w) ==
    LET r == get_element(G, source)
    IN  IF r.err # "none" THEN [NoPaths EXCEPT !.pc = r.err]
        ELSE [pc |-> "run", source |-> r.ret, w |-> w,
              paths |-> DictSet(<<>>, r.ret, <<0, <<>>>>),
              unoptomized |-> <<<<0, r.ret>>>>]

\* one round of the loop of get_shortest_paths: the least tuple is popped and
\* the outgoing edges of its node are relaxed
get_shortest_paths_step(G, p) ==
    LET i == HeapMin(p.unoptomized)
        current == p.unoptomized[i][2]
        s == RelaxAll(G, p.w, [paths |-> p.paths, unoptomized |-> ListPop(p.unoptomized, i),
                               err |-> "none"],
                      current, node_outgoing(G, current))
    IN  [p EXCEPT !.pc = IF s.err = "none" THEN "run" ELSE s.err,
                  !.paths = s.paths, !.unoptomized = s.unoptomized]

\* ---------------------------------------------- components, move_edge
\* dict.values(): the elements of the dict d in the order keys of its keys
Values(d, keys) == [i \in 1..Len(keys) |-> d[keys[i]]]

\* the ends a depth-first traversal from root may come to when the
\* generator is run to exhaustion on the graph G, one for each order sets
\* may be iterated in
RECURSIVE Runs(_, _)
Runs(G, t) ==
    IF ~Live(t) THEN {t}
    ELSE UNION {Runs(G, u) : u \in generator_next(G, t)}

depth_first_traversal(G, root) == Runs(G, heuristic_traversal(root, "dfs"))

\* set.issubset under __eq__ of the elements
IsSubset(A, B) == \A x \in A : InSet(B, x)

\* list.remove(component) for a list of sets
RemoveSet(l, c) ==
    LET i == CHOOSE k \in 1..Len(l) :
                 /\ IsSubset(l[k], c) /\ IsSubset(c, l[k])
                 /\ \A j \in 1..(k - 1) : ~(IsSubset(l[j], c) /\ IsSubset(c, l[j]))
    IN  ListPop(l, i)

\* "for component in connected" from position i on, the list being changed
\* while it is iterated; s holds connected and add_this
RECURSIVE ScanComponents(_, _, _)
ScanComponents(s, discovered, i) ==
    IF i > Len(s.connected) THEN s
    ELSE IF IsSubset(discovered, s.connected[i]) THEN [s EXCEPT !.add_this = FALSE]
    ELSE IF IsSubset(s.connected[i], discovered)
         THEN ScanComponents([connected |-> Append(RemoveSet(s.connected, s.connected[i]), discovered),
                              add_this |-> FALSE], discovered, i + 1)
    ELSE ScanComponents(s, discovered, i + 1)

\* "for node in self.nodes" of get_connected_components, run[n] being the
\* traversal made from node n
RECURSIVE ComponentsLoop(_, _, _, _)
ComponentsLoop(G, run, connected, nodes) ==
    IF nodes = <<>> THEN Ok(G, connected)
    ELSE LET t == run[Head(nodes)]
             s == ScanComponents([connected |-> connected, add_this |-> TRUE], Range(t.yielded), 1)
         IN  IF t.pc # "done" THEN Raise(G, t.pc)
             ELSE ComponentsLoop(G, run, IF s.add_this THEN Append(s.connected, Range(t.yielded))
                                         ELSE s.connected, Tail(nodes))

\* the traversals get_connected_components may make, one from each node
ComponentRuns(G) ==
    LET N == Range(G.gn)
        all == UNION {depth_first_traversal(G, Ref("elem", name(n))) : n \in N}
    IN  {run \in [N -> all] : \A n \in N : run[n] \in depth_first_traversal(G, Ref("elem", name(n)))}

\* Graph.get_connected_components
get_connected_components(G, run) == ComponentsLoop(G, run, <<>>, Values(G.gn, G.kn))


\* move_edge that leaves the edge in the lists of its old endpoints
move_edge_keep(G, edge, start, end) ==
    LET r0 == get_element(G, edge)
    IN  IF r0.err # "none" THEN r0
        ELSE IF ~IsEdge(r0.ret) THEN Raise(G, "AttributeError")
        ELSE
        LET e == r0.ret
            old == G.edges[e]
            new_start == IF Falsy(start) THEN old.start ELSE start
            new_end == IF Falsy(end) THEN old.end ELSE end
            r2 == Ok([G EXCEPT !.edges[e].start = new_start, !.edges[e].end = new_end], None)
            r3 == IF old.directed
                  THEN Then(r2, LAMBDA H : Then(ListAppend(H, new_start, "out", e),
                                                LAMBDA K : ListAppend(K, new_end, "inc", e)))
                  ELSE Then(r2, LAMBDA H : Then(ListAppend(H, new_start, "bi", e),
                                                LAMBDA K : IF is_not(start, end)
                                                           THEN ListAppend(K, new_end, "bi", e)
                                                           ELSE Ok(K, None)))
        IN  IF r3.err # "none" THEN r3 ELSE Ok(r3.g, e)

\* Graph.move_edge; "start or edge.start" keeps the old endpoint for every
\* falsy start, and what is given otherwise is used as it is
move_edge(G, edge, start, end) ==
    LET r0 == get_element(G, edge)
    IN  IF r0.err # "none" THEN r0
        ELSE IF ~IsEdge(r0.ret) THEN Raise(G, "AttributeError")
        ELSE
        LET e == r0.ret
            old == G.edges[e]
            first == ListRemoveIn(G, old.start, "bi", e)
            second == ListRemoveIn(first.g, old.end, "bi", e)
            r1 == IF old.directed
                  THEN Then(ListRemoveIn(G, old.start, "out", e),
                            LAMBDA H : ListRemoveIn(H, old.end, "inc", e))
                  ELSE IF first.err # "none" THEN Ok(G, None)
                  ELSE IF second.err # "none" THEN Ok(first.g, None)
                  ELSE second
            new_start == IF Falsy(start) THEN old.start ELSE start
            new_end == IF Falsy(end) THEN old.end ELSE end
            r2 == Then(r1, LAMBDA H : Ok([H EXCEPT !.edges[e].start = new_start,
                                                   !.edges[e].end = new_end], None))
            r3 == IF old.directed
                  THEN Then(r2, LAMBDA H : Then(ListAppend(H, new_start, "out", e),
                                                LAMBDA K : ListAppend(K, new_end, "inc", e)))
                  ELSE Then(r2, LAMBDA H : Then(ListAppend(H, new_start, "bi", e),
                                                LAMBDA K : IF is_not(start, end)
                                                           THEN ListAppend(K, new_end, "bi", e)
                                                           ELSE Ok(K, None)))
        IN  IF r3.err # "none" THEN r3 ELSE Ok(r3.g, e)

\* "for e in self.edges: self.move_edge(e, start=e.end, end=e.start)"
RECURSIVE TransposeLoop(_, _)
TransposeLoop(G, edges) ==
    IF edges = <<>> THEN Ok(G, None)
    ELSE Then(move_edge(G, Ref("elem", name(Head(edges))),
                        G.edges[Head(edges)].end, G.edges[Head(edges)].start),
              LAMBDA H : TransposeLoop(H, Tail(edges)))

\* a transpose that moves the start of every edge and leaves its end
RECURSIVE TransposeStarts(_, _)
TransposeStarts(G, edges) ==
    IF edges = <<>> THEN Ok(G, None)
    ELSE Then(move_edge(G, Ref("elem", name(Head(edges))), G.edges[Head(edges)].end, None),
              LAMBDA H : TransposeStarts(H, Tail(edges)))

transpose_starts(G) == TransposeStarts(G, Values(G.ge, G.ke))

\* a transpose that exchanges the endpoints and leaves the adjacency lists
transpose_fields(G) ==
    Ok([G EXCEPT !.edges = [e \in DOMAIN G.edges |->
                               IF e \in Range(G.ge)
                               THEN [G.edges[e] EXCEPT !.start = G.edges[e].end,
                                                       !.end = G.edges[e].start]
                               ELSE G.edges[e]]], None)

\* Graph.transpose
transpose(G) == TransposeLoop(G, Values(G.ge, G.ke))

\* visited.remove(node) for every node of the set, where it is there
RemoveNodes(visited, S) == SelectSeq(visited, LAMBDA n : ~InSet(S, n))

\* the loop "while visited" of get_strongly_connected on the transposed
\* graph G: the ways it may end, each with the current_component its last
\* round has left
RECURSIVE VisitedLoop(_, _, _)
VisitedLoop(G, visited, current_component) ==
    IF visited = <<>> THEN {Ok(G, current_component)}
    ELSE UNION {IF t.pc # "done" THEN {Raise(G, t.pc)}
                ELSE VisitedLoop(G, RemoveNodes(Tail(visited), Range(t.yielded)),
                                 Range(t.yielded)) :
                t \in depth_first_traversal(G, Ref("elem", name(Head(visited))))}

\* the loop "for c in self.get_connected_components()": the ways it may
\* end; the current_component the while loop has left is appended once,
\* after the loop
RECURSIVE ComponentLoop(_, _, _)
ComponentLoop(G, components, sccs) ==
    IF components = <<>> THEN {Ok(G, sccs)}
    ELSE UNION {UNION {
           IF t.pc # "done" THEN {Raise(G, t.pc)}
           ELSE LET tr1 == transpose(G)
                IN  IF tr1.err # "none" THEN {tr1}
                    ELSE UNION {IF r.err # "none" THEN {r}
                                ELSE LET tr2 == transpose(r.g)
                                     IN  IF tr2.err # "none" THEN {tr2}
                                         ELSE ComponentLoop(tr2.g, Tail(components),
                                                            Append(sccs, r.ret)) :
                                r \in VisitedLoop(tr1.g, t.yielded, {})} :
           t \in depth_first_traversal(G, Ref("elem", name(arbitrary)))} :
         arbitrary \in Head(components)}

\* Graph.get_strongly_connected: the ways the call may end
get_strongly_connected(G) ==
    UNION {IF cc.err # "none" THEN {cc} ELSE ComponentLoop(G, cc.ret, <<>>) :
           cc \in {get_connected_components(G, run) : run \in ComponentRuns(G)}}

\* ---------------------------------------------------------- contraction
\* "for edge in <list>: self.move_edge(edge, end=new_node)", or start=
RECURSIVE MoveAll(_, _, _, _)
MoveAll(G, edges, side, new_node) ==
    IF edges = <<>> THEN Ok(G, None)
    ELSE Then(IF side = "end"
              THEN move_edge(G, Ref("elem", name(Head(edges))), None, new_node)
              ELSE move_edge(G, Ref("elem", name(Head(edges))), new_node, None),
              LAMBDA H : MoveAll(H, Tail(edges), side, new_node))

\* "try: remove_node(start); remove_node(end) / except KeyError: pass", for
\* every order the two calls may iterate the edges of their node in
RemoveEndpoints(G, start, end, new_node) ==
    UNION {LET ra == remove_node(G, Ref("elem", name(start)), o1)
           IN  IF ra.err = "KeyError" THEN {Ok(ra.g, new_node)}
               ELSE IF ra.err # "none" THEN {ra}
               ELSE {LET rb == remove_node(ra.g, Ref("elem", name(end)), o2)
                     IN  IF rb.err = "KeyError" \/ rb.err = "none" THEN Ok(rb.g, new_node)
                         ELSE rb :
                     o2 \in RemoveOrders(ra.g, Ref("elem", name(end)))} :
           o1 \in RemoveOrders(G, Ref("elem", name(start)))}

\* Graph.contract_edge, the callback's dictionary naming the new node nm:
\* the ways the call may end
contract_edge(G, edge, nm) ==
    LET r0 == get_element(G, edge)
    IN  IF r0.err # "none" THEN {r0}
        ELSE IF ~IsEdge(r0.ret) THEN {Raise(G, "AttributeError")}
        ELSE
        LET e == r0.ret
            start == G.edges[e].start
            end == G.edges[e].end
            r1 == add_node(G, nm)
            new_node == r1.ret
            r2 == Then(r1, LAMBDA H : remove_edge(H, Ref("elem", name(e))))
            r3 == Then(r2, LAMBDA H : MoveAll(H, node_incoming(H, start) \o node_incoming(H, end),
                                              "end", new_node))
            r4 == Then(r3, LAMBDA H : MoveAll(H, node_outgoing(H, start) \o node_outgoing(H, end),
                                              "start", new_node))
        IN  IF r4.err # "none" THEN {r4}
            ELSE RemoveEndpoints(r4.g, start, end, new_node)

\* -------------------------------------------------------------- algebra
\* the name tables of a graph
EmptyTab == [gn |-> Empty, ge |-> Empty, kn |-> <<>>, ke |-> <<>>]
Tab(G) == [gn |-> G.gn, ge |-> G.ge, kn |-> G.kn, ke |-> G.ke]

\* the heap of G, seen from the graph whose name tables are t
In(G, t) == [G EXCEPT !.gn = t.gn, !.ge = t.ge, !.kn = t.kn, !.ke = t.ke]

\* a heap with attribute data and no object, and a graph with no element
NewWorld == [nodes |-> Empty, edges |-> Empty, gn |-> Empty, ge |-> Empty,
             kn |-> <<>>, ke |-> <<>>, data |-> Empty]

\* a result that is the operand itself, not a new graph
SameGraphObject(G, self) == In(G, self)

\* "g = type(self)()": a new graph in the heap of G
NewResult(G, self) == In(G, EmptyTab)

\* Graph.__contains__ that finds every element
contains_all(t, o) == TRUE

\* Graph.__contains__ for a Node or an Edge: its name is in the table of
\* its type
contains(t, o) == IF IsNode(o) THEN name(o) \in DOMAIN t.gn ELSE name(o) \in DOMAIN t.ge

\* add_node(name, **data): Node.__init__ sets the attributes
add_node_data(G, nm, data) ==
    LET r == add_node(G, nm)
    IN  Ok([r.g EXCEPT !.data = DictSet(@, r.ret, data)], r.ret)

\* add_edge(start, end, name, is_directed, **data): Edge.__init__ sets the
\* attributes, also of an edge that is stored and then fails to be attached
add_edge_data(G, s, e, nm, is_directed, data) ==
    LET r == add_edge(G, s, e, nm, is_directed)
    IN  IF r.err = "none" THEN Ok([r.g EXCEPT !.data = DictSet(@, r.ret, data)], r.ret)
        ELSE IF r.g = G THEN r
        ELSE [r EXCEPT !.g.data = DictSet(@, r.g.ge[nm], data)]

\* "for node in nodes: g.add_node(node.name, **node.data)" for the nodes
\* that are in t (mode "in"), not in t (mode "notin"), or all of them
RECURSIVE CopyNodes(_, _, _, _)
CopyNodes(G, nodes, mode, t) ==
    IF nodes = <<>> THEN Ok(G, None)
    ELSE LET node == Head(nodes)
             wanted == \/ mode = "all"
                       \/ mode = "in" /\ contains(t, node)
                       \/ mode = "notin" /\ ~contains(t, node)
         IN  IF wanted
             THEN Then(add_node_data(G, name(node), G.data[node]),
                       LAMBDA H : CopyNodes(H, Tail(nodes), mode, t))
             ELSE CopyNodes(G, Tail(nodes), mode, t)

\* the edge loop of union: every edge, with the data of the node the node
\* loop ended on
RECURSIVE UnionEdges(_, _, _)
UnionEdges(G, edges, node) ==
    IF edges = <<>> THEN Ok(G, None)
    ELSE LET edge == Head(edges)
         IN  IF node = None THEN Raise(G, "UnboundLocalError")
             ELSE Then(add_edge_data(G, Ref("name", name(G.edges[edge].start)),
                                     Ref("name", name(G.edges[edge].end)), name(edge),
                                     G.edges[edge].directed, G.data[node]),
                       LAMBDA H : UnionEdges(H, Tail(edges), node))

\* Graph.union
union(G, self, other) ==
    LET nodes == Values(self.gn, self.kn) \o Values(other.gn, other.kn)
        node == IF nodes = <<>> THEN None ELSE nodes[Len(nodes)]
    IN  Then(CopyNodes(NewResult(G, self), nodes, "all", other),
             LAMBDA H : UnionEdges(H, Values(self.ge, self.ke) \o Values(other.ge, other.ke), node))

\* an edge loop of intersection: the edges that are in t and whose start
\* and end are in g
RECURSIVE IntersectionEdges(_, _, _)
IntersectionEdges(G, edges, t) ==
    IF edges = <<>> THEN Ok(G, None)
    ELSE LET edge == Head(edges)
             start == G.edges[edge].start
             end == G.edges[edge].end
         IN  IF contains(t, edge) /\ contains(Tab(G), start) /\ contains(Tab(G), end)
             THEN Then(add_edge_data(G, Ref("name", name(start)), Ref("name", name(end)),
                                     name(edge), G.edges[edge].directed, G.data[edge]),
                       LAMBDA H : IntersectionEdges(H, Tail(edges), t))
             ELSE IntersectionEdges(G, Tail(edges), t)

\* Graph.intersection
intersection(G, self, other) ==
    Then(CopyNodes(NewResult(G, self), Values(self.gn, self.kn), "in", other),
         LAMBDA H1 : Then(CopyNodes(H1, Values(other.gn, other.kn), "in", self),
         LAMBDA H2 : Then(IntersectionEdges(H2, Values(self.ge, self.ke), other),
         LAMBDA H3 : IntersectionEdges(H3, Values(other.ge, other.ke), self))))

\* the edge loop of difference and of induce_subgraph: the edges that are
\* not in t and whose start and end are in g, added without is_directed
RECURSIVE DifferenceEdges(_, _, _, _)
DifferenceEdges(G, edges, t, kind) ==
    IF edges = <<>> THEN Ok(G, None)
    ELSE LET edge == Head(edges)
             start == G.edges[edge].start
             end == G.edges[edge].end
         IN  IF ~contains(t, edge) /\ contains(Tab(G), start) /\ contains(Tab(G), end)
             THEN Then(add_edge_data(G, Ref(kind, name(start)), Ref(kind, name(end)),
                                     name(edge), TRUE, G.data[edge]),
                       LAMBDA H : DifferenceEdges(H, Tail(edges), t, kind))
             ELSE DifferenceEdges(G, Tail(edges), t, kind)

\* Graph.difference
difference(G, self, other) ==
    Then(CopyNodes(NewResult(G, self), Values(self.gn, self.kn), "notin", other),
         LAMBDA H : DifferenceEdges(H, Values(self.ge, self.ke), other, "elem"))

\* the node loop of induce_subgraph over the names given
RECURSIVE InduceNodes(_, _, _)
InduceNodes(G, self, nodes) ==
    IF nodes = <<>> THEN Ok(G, None)
    ELSE LET r == get_element(In(G, self), Head(nodes))
         IN  IF r.err # "none" THEN Raise(G, r.err)
             ELSE Then(add_node_data(G, name(r.ret), G.data[r.ret]),
                       LAMBDA H : InduceNodes(H, self, Tail(nodes)))

\* Graph.induce_subgraph
induce_subgraph(G, self, nodes) ==
    Then(InduceNodes(NewResult(G, self), self, nodes),
         LAMBDA H : DifferenceEdges(H, Values(self.ge, self.ke), EmptyTab, "name"))

\* the first loop of edge_induce_subgraph: the endpoints that are not in g
RECURSIVE InduceEnds(_, _, _)
InduceEnds(G, self, edges) ==
    IF edges = <<>> THEN Ok(G, None)
    ELSE LET r == get_element(In(G, self), Head(edges))
         IN  IF r.err # "none" THEN Raise(G, r.err)
             ELSE IF ~IsEdge(r.ret) THEN Raise(G, "AttributeError")
             ELSE LET start == G.edges[r.ret].start
                      end == G.edges[r.ret].end
                      r1 == IF contains(Tab(G), start) THEN Ok(G, None)
                            ELSE add_node_data(G, name(start), G.data[start])
                      r2 == IF contains(Tab(r1.g), end) THEN Ok(r1.g, None)
                            ELSE add_node_data(r1.g, name(end), r1.g.data[end])
                  IN  Then(r2, LAMBDA H : InduceEnds(H, self, Tail(edges)))

\* the second loop of edge_induce_subgraph, over the arguments as given:
\* an Edge of self, or a name, which has no start
RECURSIVE InduceEdges(_, _, _)
InduceEdges(G, self, edges) ==
    IF edges = <<>> THEN Ok(G, None)
    ELSE IF Head(edges)[1] = "name" THEN Raise(G, "AttributeError")
    ELSE LET edge == self.ge[Head(edges)[2]]
         IN  Then(add_edge_data(G, Ref("name", name(G.edges[edge].start)),
                                Ref("name", name(G.edges[edge].end)),
                                name(edge), TRUE, G.data[edge]),
                  LAMBDA H : InduceEdges(H, self, Tail(edges)))

\* Graph.edge_induce_subgraph
edge_induce_subgraph(G, self, edges) ==
    Then(InduceEnds(NewResult(G, self), self, edges),
         LAMBDA H : InduceEdges(H, self, edges))

\* ----------------------------------------------------------------- walks
\* the body of walker(): the nodes adjacent to next, over the outgoing
\* edges or, in a reverse walk, over the incoming ones
walker_adjacent(G, next, reverse) ==
    IF ~IsNode(next) THEN Raise(G, "AttributeError")
    ELSE IF reverse THEN get_adjacent(G, next, FALSE, TRUE) ELSE get_adjacent(G, next, TRUE, FALSE)

\* walk_nodes up to its first "yield candidates": the generator w it leaves
walk_nodes(G, w, start, reverse) ==
    LET r0 == get_element(G, start)
    IN  IF r0.err # "none"
        THEN Ok(r0.g, [w EXCEPT !.pc = "done", !.err = r0.err, !.reverse = reverse, !.g0 = G])
        ELSE LET r == walker_adjacent(G, r0.ret, reverse)
             IN  IF r.err # "none"
                 THEN Ok(r.g, [w EXCEPT !.pc = "done", !.err = r.err, !.reverse = reverse,
                                        !.g0 = G])
                 ELSE Ok(r.g, [w EXCEPT !.pc = "candidates", !.next = r0.ret,
                                        !.reverse = reverse, !.candidates = r.ret, !.g0 = G])

\* w.send(selection) at "selection = (yield candidates)": walker() leaves
\* its loop on an empty selection, and the StopIteration it then raises
\* inside walk_nodes reaches the caller as a RuntimeError
send(G, w, selection) ==
    IF selection = None
    THEN Ok(G, [w EXCEPT !.pc = "done", !.err = "RuntimeError", !.sent = Append(@, selection)])
    ELSE LET r == walker_adjacent(G, selection, w.reverse)
         IN  IF r.err # "none"
             THEN Ok(r.g, [w EXCEPT !.pc = "done", !.err = r.err, !.sent = Append(@, selection)])
             ELSE Ok(r.g, [w EXCEPT !.pc = "sent", !.next = selection, !.candidates = r.ret,
                                    !.sent = Append(@, selection)])

\* --------------------------------------------------------------- search
\* GraphElement.data with the one attribute "value", or with none
NoData == [k \in {} |-> 0]
DataOf(v) == [k \in {"value"} |-> v]

\* the keyword arguments of a search: each is <<>> when left out
Given(x) == <<x>>
IsGiven(arg) == arg # <<>>

\* "properties.issuperset(desired_properties)" for the attribute value
HasValue(G, o, kwargs) ==
    IsGiven(kwargs.value) =>
        ("value" \in DOMAIN G.data[o] /\ G.data[o]["value"] = kwargs.value[1])

\* search_nodes that does not look at the attributes
search_nodes_by_name(G, kwargs) ==
    Ok(G, SelectSeq(Values(G.gn, G.kn),
                    LAMBDA node : IsGiven(kwargs.name) => name(node) = kwargs.name[1]))

\* Graph.search_nodes(**kwargs), run to its end: the nodes in the order of
\* their names
search_nodes(G, kwargs) ==
    Ok(G, SelectSeq(Values(G.gn, G.kn),
                    LAMBDA node : /\ IsGiven(kwargs.name) => name(node) = kwargs.name[1]
                                  /\ HasValue(G, node, kwargs)))

\* Graph.search_edges(**kwargs), run to its end: start and end are looked
\* up with get_element and compared with ==
search_edges(G, kwargs) ==
    LET rs == IF IsGiven(kwargs.start) THEN get_element(G, kwargs.start[1]) ELSE Ok(G, None)
        re == IF IsGiven(kwargs.end) THEN get_element(G, kwargs.end[1]) ELSE Ok(G, None)
    IN  IF rs.err # "none" THEN rs
        ELSE IF re.err # "none" THEN re
        ELSE Ok(G, SelectSeq(Values(G.ge, G.ke),
                   LAMBDA edge :
                       /\ IsGiven(kwargs.name) => name(edge) = kwargs.name[1]
                       /\ IsGiven(kwargs.start) => ElemEq(G.edges[edge].start, rs.ret)
                       /\ IsGiven(kwargs.end) => ElemEq(G.edges[edge].end, re.ret)
                       /\ HasValue(G, edge, kwargs)))

\* "a & b" for two Python sets given as duplicate-free lists: the entries
\* of the smaller one (of b when they are as long) that are equal to one
\* of the other
SetAnd(a, b) ==
    LET small == IF Len(b) > Len(a) THEN a ELSE b
        large == IF Len(b) > Len(a) THEN b ELSE a
    IN  {small[i] : i \in {j \in 1..Len(small) : ListContains(large, small[j])}}

\* get_common_edges that takes the edges leaving the first node and those
\* entering the second
get_common_edges_directed(G, n1, n2) ==
    LET r1 == get_element(G, n1)
        r2 == get_element(G, n2)
    IN  IF r1.err # "none" THEN r1
        ELSE IF r2.err # "none" THEN r2
        ELSE IF ~IsNode(r1.ret) \/ ~IsNode(r2.ret) THEN Raise(G, "AttributeError")
        ELSE Ok(G, SetAnd(Dedup(node_outgoing(G, r1.ret)), Dedup(node_incoming(G, r2.ret))))

\* Graph.get_common_edges: an Edge has no incoming or outgoing list
get_common_edges(G, n1, n2) ==
    LET r1 == get_element(G, n1)
        r2 == get_element(G, n2)
    IN  IF r1.err # "none" THEN r1
        ELSE IF r2.err # "none" THEN r2
        ELSE IF ~IsNode(r1.ret) \/ ~IsNode(r2.ret) THEN Raise(G, "AttributeError")
        ELSE Ok(G, SetAnd(Dedup(node_incoming(G, r1.ret) \o node_outgoing(G, r1.ret)),
                          Dedup(node_incoming(G, r2.ret) \o node_outgoing(G, r2.ret))))

\* ------------------------------------------------------- acyclic graphs
\* the container-based Graph.  A Node is the number it was made as (Node
\* has no __eq__, so two nodes are equal when they are one object), an Edge
\* is <<start, end, number it was made as>>; nodes and edges are the lists
\* of the two containers, made and emade count the objects made so far, err
\* and arg are those of the last call
NewDag == [nodes |-> <<>>, made |-> 0, edges |-> <<>>, emade |-> 0,
           err |-> "none", arg |-> <<>>]

\* an Edge the store does not hold
NoEdge == <<0, 0, 0>>

\* Graph.add_node of the container-based Graph
container_add_node(D) ==
    [D EXCEPT !.nodes = Append(@, D.made + 1), !.made = @ + 1, !.err = "none", !.arg = <<>>]

\* Graph.remove_node of the container-based Graph: list.remove takes the
\* node out of the node list and leaves the edges alone; for a node the
\* list does not hold, the handler's "raise GraphOperationError" names an
\* exception the module never imported, a NameError
container_remove_node(D, node) ==
    IF \E i \in 1..Len(D.nodes) : D.nodes[i] = node
    THEN [D EXCEPT !.nodes = SelectSeq(@, LAMBDA n : n # node), !.err = "none",
                   !.arg = <<node>>]
    ELSE [D EXCEPT !.err = "NameError", !.arg = <<node>>]

\* Graph.add_edge of the container-based Graph
container_add_edge(D, start, end) ==
    [D EXCEPT !.edges = Append(@, <<start, end, D.emade + 1>>), !.emade = @ + 1,
              !.err = "none", !.arg = <<start, end>>]

\* Graph.remove_edge of the container-based Graph: list.remove takes the
\* edge out of the edge list, and ends as remove_node does for an edge the
\* list does not hold
container_remove_edge(D, edge) ==
    IF \E i \in 1..Len(D.edges) : D.edges[i] = edge
    THEN [D EXCEPT !.edges = SelectSeq(@, LAMBDA e : e # edge), !.err = "none",
                   !.arg = <<edge>>]
    ELSE [D EXCEPT !.err = "NameError", !.arg = <<edge>>]

\* Graph.get_adjacent_nodes: the node itself, then the end of every edge
\* that starts at it
get_adjacent_nodes(D, node) ==
    <<node>> \o [i \in 1..Len(SelectSeq(D.edges, LAMBDA edge : edge[1] = node)) |->
                     SelectSeq(D.edges, LAMBDA edge : edge[1] = node)[i][2]]

\* the loop of depth_first_traversal over the adjacent nodes, with the
\* list visited that the recursive calls share; a node is yielded when it
\* is appended
RECURSIVE DftLoop(_, _, _)
DftLoop(D, adjacent, visited) ==
    IF adjacent = <<>> THEN visited
    ELSE IF \E i \in 1..Len(visited) : visited[i] = Head(adjacent)
    THEN DftLoop(D, Tail(adjacent), visited)
    ELSE DftLoop(D, Tail(adjacent),
                 DftLoop(D, get_adjacent_nodes(D, Head(adjacent)), Append(visited, Head(adjacent))))

\* Graph.depth_first_traversal(root) of the container-based Graph: the
\* nodes in the order they are yielded
container_depth_first_traversal(D, root) == DftLoop(D, get_adjacent_nodes(D, root), <<>>)

\* an add_edge without the test for a cycle
acyclic_add_edge_unchecked(D, start, end) == container_add_edge(D, start, end)

\* AcyclicGraphMixin.add_edge
acyclic_add_edge(D, start, end) ==
    IF \E i \in 1..Len(container_depth_first_traversal(D, end)) :
           container_depth_first_traversal(D, end)[i] = start
    THEN [D EXCEPT !.err = "EdgeInitializationError", !.arg = <<start, end>>]
    ELSE container_add_edge(D, start, end)

\* -------------------------------------------------------------- actions
\* the element a reference resolves to, as it is before the call
NoEl == [none |-> TRUE]
Snapshot(G, ref) ==
    LET r == get_element(G, ref)
    IN  IF r.err # "none" THEN NoEl
        ELSE IF IsNode(r.ret) THEN G.nodes[r.ret] ELSE G.edges[r.ret]

\* the record of a call: its operation, the name it was given, the exception
\* it raised, size() before it and the element that name stood for before it
Call(op, arg, G, r) ==
    [op |-> op, arg |-> arg, err |-> r.err, size0 |-> size(G),
     el |-> IF op = "add_edge" THEN NoEl ELSE Snapshot(G, Ref("name", arg))]

NameInUse(G, nm) == nm \in DOMAIN G.gn \/ nm \in DOMAIN G.ge

\* a name in use may be given again while the budget of such calls lasts
MayUse(nm) == NameInUse(g, nm) => reuses < MaxReuse
Used(nm) == IF NameInUse(g, nm) THEN reuses + 1 ELSE reuses

\* no operand built yet, no operation called
NoAlgebra == [pc |-> "a", g |-> NewWorld, a |-> EmptyTab, b |-> EmptyTab,
              op |-> "none", arg |-> <<>>, err |-> "none"]

\* no walk started
NoWalk == [pc |-> "idle", next |-> None, reverse |-> FALSE, candidates |-> <<>>,
           sent |-> <<>>, err |-> "none", g0 |-> NewGraph]

Init ==
    /\ g = NewGraph
    /\ last = Call("init", 0, NewGraph, Ok(NewGraph, None))
    /\ reuses = 0
    /\ tr = Idle
    /\ sp = NoPaths
    /\ al = NoAlgebra
    /\ wk = NoWalk
    /\ dag = NewDag

\* the graph a call leaves behind, as the next call finds it
Kept(G) == IF tr.pc = "idle" THEN Settle(G) ELSE G

AddNodeCall(nm) ==
    /\ MayUse(nm)
    /\ CanAlloc(g, "n", nm)
    /\ LET r == add_node(g, nm)
       IN  /\ g' = Kept(r.g)
           /\ last' = Call("add_node", nm, g, r)
           /\ reuses' = Used(nm)

\* add_edge is given a name no element carries
AddEdgeCall(s, e, nm, d) ==
    /\ ~NameInUse(g, nm)
    /\ CanAlloc(g, "e", nm)
    /\ LET r == add_edge(g, s, e, nm, d)
       IN  /\ g' = Kept(r.g)
           /\ last' = Call("add_edge", nm, g, r)
           /\ UNCHANGED reuses

RemoveEdgeCall(ref) ==
    LET r == remove_edge(g, ref)
    IN  /\ g' = Kept(r.g)
        /\ last' = Call("remove_edge", ref[2], g, r)
        /\ UNCHANGED reuses

RemoveNodeCall(ref, ord) ==
    LET r == remove_node(g, ref, ord)
    IN  /\ g' = Kept(r.g)
        /\ last' = Call("remove_node", ref[2], g, r)
        /\ UNCHANGED reuses

\* A generator is suspended between two calls of next(), and the consumer
\* may call any operation of the graph meanwhile.  The objects a generator
\* holds stay as they are, so the heap is settled only while there is no
\* generator, and the calls made beside a generator are counted up to
\* MaxBeside.
Beside == tr.pc # "idle"
MayCall == Beside => tr.calls < MaxBeside
Counted == tr' = IF Beside THEN [tr EXCEPT !.calls = @ + 1] ELSE tr
\* the graph is as it was when the generator was made
Undisturbed == tr.calls = 0

AddNode == \E nm \in NodeNames : MayCall /\ AddNodeCall(nm) /\ Counted /\ UNCHANGED <<sp, al, wk, dag>>

AddEdge ==
    \E s \in NodeNames, e \in NodeNames, nm \in EdgeNames, d \in BOOLEAN, k \in RefKinds :
        MayCall /\ AddEdgeCall(Ref(k, s), Ref(k, e), nm, d) /\ Counted /\ UNCHANGED <<sp, al, wk, dag>>

RemoveEdge ==
    \E nm \in EdgeNames, k \in RefKinds :
        MayCall /\ RemoveEdgeCall(Ref(k, nm)) /\ Counted /\ UNCHANGED <<sp, al, wk, dag>>

RemoveNode ==
    \E nm \in NodeNames, k \in RefKinds :
        \E ord \in RemoveOrders(g, Ref(k, nm)) :
            MayCall /\ RemoveNodeCall(Ref(k, nm), ord) /\ Counted /\ UNCHANGED <<sp, al, wk, dag>>

Next == AddNode \/ AddEdge \/ RemoveEdge \/ RemoveNode

Spec == Init /\ [][Next]_vars

\* ------------------------------------------------- traversal on a graph
\* The graphs traversed: n nodes, then up to m edges between them, every
\* name new.  Names are given in increasing order and the traversal starts at
\* one of the first TravRoots nodes, which loses no graph: a traversal reads
\* names only to compare elements.  The calls that build the graph may also
\* come between two calls of next(), like any call of the consumer.
BuildNodeTo(n) ==
    /\ MayCall
    /\ order(g) < n
    /\ AddNodeCall(order(g) + 1)
    /\ Counted
    /\ UNCHANGED <<sp, al, wk, dag>>

BuildEdgeTo(n, m) ==
    /\ MayCall
    /\ order(g) = n
    /\ size(g) < m
    /\ \E s \in 1..n, e \in 1..n, d \in BOOLEAN :
           AddEdgeCall(Ref("name", s), Ref("elem", e), n + size(g) + 1, d)
    /\ Counted
    /\ UNCHANGED <<sp, al, wk, dag>>

BuildNode == BuildNodeTo(TravNodes)

BuildEdge == BuildEdgeTo(TravNodes, TravEdges)

\* a traversal is called for: the generator is made
TravStart ==
    /\ tr.pc = "idle"
    /\ \E root \in 1..TravRoots, k \in RefKinds, sel \in Selectors :
           tr' = heuristic_traversal(Ref(k, root), sel)
    /\ UNCHANGED <<g, last, reuses, sp, al, wk, dag>>

\* the consumer calls next() on the generator
TravNext ==
    /\ Live(tr)
    /\ \/ /\ tr.pc = "new"
          /\ \E u \in {traversal_start(g, tr)} : \E v \in traversal_loop(u) : tr' = v
       \/ /\ tr.pc = "run"
          /\ \E adj \in {next_get_adjacent(g, tr.next)} :
                 \E ord \in VisitOrders(tr, adj) :
                     \E u \in {traversal_visit(tr, adj, ord)} :
                         \E v \in traversal_loop(u) : tr' = v
    /\ UNCHANGED <<g, last, reuses, sp, al, wk, dag>>

NextTrav == BuildNode \/ BuildEdge \/ TravStart \/ TravNext

SpecTrav == Init /\ [][NextTrav]_vars

\* The consumer changes the graph between two calls of next(): the calls of
\* Next beside a generator.
NextBeside == AddNode \/ AddEdge \/ RemoveEdge \/ RemoveNode \/ TravStart \/ TravNext

SpecBeside == Init /\ [][NextBeside]_vars

\* The graphs a traversal is run to its end on: LoopNodes nodes and up to
\* LoopEdges edges, enough for loops, cycles, parallel edges and a node
\* that is adjacent to two others, so that the discovered list holds more
\* than one entry and the selectors differ.
LoopBuildNode == BuildNodeTo(LoopNodes)

LoopBuildEdge == BuildEdgeTo(LoopNodes, LoopEdges)

NextLoop == LoopBuildNode \/ LoopBuildEdge \/ TravStart \/ TravNext

\* the consumer of the generator keeps asking for the next node
SpecLoopFair == Init /\ [][NextLoop]_vars /\ WF_vars(TravNext)

\* ------------------------------------------- shortest paths on a graph
Weights(lo, hi) == lo..hi

PathStart(lo, hi) ==
    /\ tr.pc = "idle" /\ sp.pc = "idle"
    /\ \E source \in 1..TravRoots, k \in RefKinds, w \in [DOMAIN g.ge -> Weights(lo, hi)] :
           sp' = get_shortest_paths_start(g, Ref(k, source), w)
    /\ UNCHANGED <<g, last, reuses, tr, al, wk, dag>>

\* a run is cut when a distance has fallen below -MaxDebt
PathStep ==
    /\ sp.pc = "run"
    /\ sp.unoptomized # <<>>
    /\ \A i \in 1..Len(sp.unoptomized) : sp.unoptomized[i][1] >= 0 - MaxDebt
    /\ sp' \in {get_shortest_paths_step(g, p) : p \in {sp}}
    /\ UNCHANGED <<g, last, reuses, tr, al, wk, dag>>

PathEnd ==
    /\ sp.pc = "run"
    /\ sp.unoptomized = <<>>
    /\ sp' = [sp EXCEPT !.pc = "done"]
    /\ UNCHANGED <<g, last, reuses, tr, al, wk, dag>>

PathBuildNode == sp.pc = "idle" /\ BuildNodeTo(PathNodes)

PathBuildEdge == sp.pc = "idle" /\ BuildEdgeTo(PathNodes, PathEdges)

PathStartNonNeg == PathStart(0, MaxWeight)

NextPaths == PathBuildNode \/ PathBuildEdge \/ PathStartNonNeg \/ PathStep \/ PathEnd

SpecPaths == Init /\ [][NextPaths]_vars

NegBuildNode == sp.pc = "idle" /\ BuildNodeTo(NegNodes)

NegBuildEdge == sp.pc = "idle" /\ BuildEdgeTo(NegNodes, NegEdges)

PathStartAny == PathStart(0 - NegWeight, NegWeight)

NextPathsAny == NegBuildNode \/ NegBuildEdge \/ PathStartAny \/ PathStep \/ PathEnd

SpecPathsAny == Init /\ [][NextPathsAny]_vars

EndBuildNode == sp.pc = "idle" /\ BuildNodeTo(EndNodes)

EndBuildEdge == sp.pc = "idle" /\ BuildEdgeTo(EndNodes, EndEdges)

PathStartEnd == PathStart(0, EndWeight)

NextPathsEnd == EndBuildNode \/ EndBuildEdge \/ PathStartEnd \/ PathStep \/ PathEnd

\* the call is left to run
SpecPathsFair == Init /\ [][NextPathsEnd]_vars /\ WF_vars(PathStep) /\ WF_vars(PathEnd)
\* ------------------------------------ components, transpose, move_edge
\* the record of a call with the value it returned
CallRet(op, arg, G, r) ==
    [op |-> op, arg |-> arg, err |-> r.err, size0 |-> size(G), el |-> NoEl, ret |-> r.ret]

\* the graph is being built: nothing but add_node and add_edge was called
Building == last.op \in {"init", "add_node", "add_edge"} /\ tr.pc = "idle" /\ sp.pc = "idle"

Components ==
    /\ Building
    /\ \E run \in ComponentRuns(g) :
           \E r \in {get_connected_components(g, run)} :
               /\ g' = Settle(r.g)
               /\ last' = CallRet("get_connected_components", 0, g, r)
    /\ UNCHANGED <<reuses, tr, sp, al, wk, dag>>

StronglyConnected ==
    /\ Building
    /\ \E r \in get_strongly_connected(g) :
           /\ g' = Settle(r.g)
           /\ last' = CallRet("get_strongly_connected", 0, g, r)
    /\ UNCHANGED <<reuses, tr, sp, al, wk, dag>>

Transpose ==
    /\ Building
    /\ \E r \in {transpose(g)} :
           /\ g' = Settle(r.g)
           /\ last' = CallRet("transpose", 0, g, r)
    /\ UNCHANGED <<reuses, tr, sp, al, wk, dag>>

CompBuildNode == Building /\ BuildNodeTo(CompNodes)

CompBuildEdge == Building /\ BuildEdgeTo(CompNodes, CompEdges)

NextComp == CompBuildNode \/ CompBuildEdge \/ Components \/ StronglyConnected \/ Transpose

SpecComp == Init /\ [][NextComp]_vars

\* the name the callback gives the new node: one no element carries
ContractName == ConNodes + ConEdges + 1

\* the names contract_edge may be handed: those of the edges and one more
ContractArgs(G) == (ConNodes + 1)..(ConNodes + size(G) + 1)

ContractEdge ==
    /\ Building
    /\ \E nm \in ContractArgs(g), k \in RefKinds :
           \E r \in contract_edge(g, Ref(k, nm), ContractName) :
               /\ g' = Settle(r.g)
               /\ last' = CallRet("contract_edge", nm, g, r)
    /\ UNCHANGED <<reuses, tr, sp, al, wk, dag>>

ConBuildNode == Building /\ BuildNodeTo(ConNodes)

ConBuildEdge == Building /\ BuildEdgeTo(ConNodes, ConEdges)

NextContract == ConBuildNode \/ ConBuildEdge \/ ContractEdge

SpecContract == Init /\ [][NextContract]_vars

\* ------------------------------------------------- algebra: the actions
\* the operand being built gets a node; nodes are added in the order of
\* their names, before the edges
AlgAddNode ==
    /\ al.pc \in {"a", "b"}
    /\ size(al.g) = 0
    /\ \E nm \in 1..AlgNodes, d \in 0..AlgData :
           /\ \A m \in DOMAIN al.g.gn : m < nm
           /\ al' = [al EXCEPT !.g = add_node_data(al.g, nm, d).g]
    /\ UNCHANGED <<g, last, reuses, tr, sp, wk, dag>>

AlgAddEdge ==
    /\ al.pc \in {"a", "b"}
    /\ size(al.g) < AlgEdges
    /\ \E nm \in (AlgNodes + 1)..(AlgNodes + AlgEdgeNames), d \in 0..AlgData,
          s \in DOMAIN al.g.gn, e \in DOMAIN al.g.gn, dir \in BOOLEAN :
           al' = [al EXCEPT !.g = add_edge_data(al.g, Ref("name", s), Ref("name", e),
                                                nm, dir, d).g]
    /\ UNCHANGED <<g, last, reuses, tr, sp, wk, dag>>

\* the first operand is complete: the second is built in the same heap
AlgOther ==
    /\ al.pc = "a"
    /\ al' = [al EXCEPT !.pc = "b", !.a = Tab(al.g), !.g = In(al.g, EmptyTab)]
    /\ UNCHANGED <<g, last, reuses, tr, sp, wk, dag>>

\* the ascending sequence of the names in S
Ascending(S) ==
    CHOOSE q \in [1..Cardinality(S) -> S] : \A i, j \in 1..Cardinality(S) : i < j => q[i] < q[j]

\* the arguments an operation may be given: none for the binary ones, some
\* nodes of self for induce_subgraph, some edges for edge_induce_subgraph
AlgArgs(op, self) ==
    IF op = "induce_subgraph"
    THEN {[i \in 1..Len(q) |-> Ref(k, q[i])] :
              q \in {Ascending(S) : S \in SUBSET DOMAIN self.gn}, k \in RefKinds}
    ELSE IF op = "edge_induce_subgraph"
    THEN {[i \in 1..Len(q) |-> Ref(k, q[i])] :
              q \in {Ascending(S) : S \in SUBSET DOMAIN self.ge}, k \in RefKinds}
    ELSE {<<>>}

AlgOps == {"union", "intersection", "difference", "induce_subgraph", "edge_induce_subgraph"}

\* the operation op of the graph self, on the heap G
AlgApply(G, op, self, other, arg) ==
    IF op = "union" THEN union(G, self, other)
    ELSE IF op = "intersection" THEN intersection(G, self, other)
    ELSE IF op = "difference" THEN difference(G, self, other)
    ELSE IF op = "induce_subgraph" THEN induce_subgraph(G, self, arg)
    ELSE edge_induce_subgraph(G, self, arg)

AlgCall ==
    /\ al.pc = "b"
    /\ \E op \in AlgOps : \E arg \in AlgArgs(op, al.a) :
           \E r \in {AlgApply(al.g, op, al.a, Tab(al.g), arg)} :
               al' = [pc |-> "done", g |-> r.g, a |-> al.a, b |-> Tab(al.g),
                      op |-> op, arg |-> arg, err |-> r.err]
    /\ UNCHANGED <<g, last, reuses, tr, sp, wk, dag>>

NextAlgebra == AlgAddNode \/ AlgAddEdge \/ AlgOther \/ AlgCall

SpecAlgebra == Init /\ [][NextAlgebra]_vars

\* --------------------------------------------------- walks: the actions
\* the first next(w) of a walk from a node of the graph, from an edge, or
\* from a name no element carries
WalkStart ==
    /\ Building
    /\ wk.pc = "idle"
    /\ \E start \in 1..(WalkNodes + WalkEdges + 1), k \in RefKinds, reverse \in BOOLEAN :
           \E r \in {walk_nodes(g, wk, Ref(k, start), reverse)} :
               g' = r.g /\ wk' = r.ret
    /\ UNCHANGED <<last, reuses, tr, sp, al, dag>>

\* the driver sends a node of the graph, or None
WalkSend ==
    /\ wk.pc = "candidates"
    /\ Len(wk.sent) < MaxWalk
    /\ \E selection \in Range(g.gn) \cup {None} :
           \E r \in {send(g, wk, selection)} :
               g' = r.g /\ wk' = r.ret
    /\ UNCHANGED <<last, reuses, tr, sp, al, dag>>

\* next(w) at the bare yield: the generator hands out the candidates
WalkNext ==
    /\ wk.pc = "sent"
    /\ wk' = [wk EXCEPT !.pc = "candidates"]
    /\ UNCHANGED <<g, last, reuses, tr, sp, al, dag>>

WalkBuildNode == wk.pc = "idle" /\ Building /\ BuildNodeTo(WalkNodes)

WalkBuildEdge == wk.pc = "idle" /\ Building /\ BuildEdgeTo(WalkNodes, WalkEdges)

NextWalk == WalkBuildNode \/ WalkBuildEdge \/ WalkStart \/ WalkSend \/ WalkNext

SpecWalk == Init /\ [][NextWalk]_vars

\* -------------------------------------------------- search: the actions
SearchData == {NoData} \cup {DataOf(v) : v \in 1..SearchValues}
SearchEdges == SearchNodes..(SearchNodes + SearchEdgeNames - 1)

SearchAddNode ==
    /\ al.pc = "a"
    /\ Cardinality(Heap(al.g)) < SearchObjects
    /\ \E nm \in 1..SearchNodes, d \in SearchData :
           /\ CanAlloc(al.g, "n", nm)
           /\ al' = [al EXCEPT !.g = add_node_data(al.g, nm, d).g]
    /\ UNCHANGED <<g, last, reuses, tr, sp, wk, dag>>

SearchAddEdge ==
    /\ al.pc = "a"
    /\ Cardinality(Heap(al.g)) < SearchObjects
    /\ \E nm \in SearchEdges, s \in 1..SearchNodes, e \in 1..SearchNodes,
          k \in RefKinds, dir \in BOOLEAN, d \in SearchData :
           /\ CanAlloc(al.g, "e", nm)
           /\ al' = [al EXCEPT !.g = add_edge_data(al.g, Ref(k, s), Ref(k, e), nm, dir, d).g]
    /\ UNCHANGED <<g, last, reuses, tr, sp, wk, dag>>

SearchRemoveNode ==
    /\ al.pc = "a"
    /\ \E nm \in 1..SearchNodes, k \in RefKinds :
           \E ord \in RemoveOrders(al.g, Ref(k, nm)) :
               al' = [al EXCEPT !.g = remove_node(al.g, Ref(k, nm), ord).g]
    /\ UNCHANGED <<g, last, reuses, tr, sp, wk, dag>>

SearchRemoveEdge ==
    /\ al.pc = "a"
    /\ \E nm \in SearchEdges, k \in RefKinds :
           al' = [al EXCEPT !.g = remove_edge(al.g, Ref(k, nm)).g]
    /\ UNCHANGED <<g, last, reuses, tr, sp, wk, dag>>

NextSearch == SearchAddNode \/ SearchAddEdge \/ SearchRemoveNode \/ SearchRemoveEdge

SpecSearch == Init /\ [][NextSearch]_vars

\* ------------------------------------- depth-first traversal of a graph
\* <<a, b>> is not after <<c, d>>
PairLeq(a, b, c, d) == a < c \/ (a = c /\ b <= d)

\* the edges are added in the order of their endpoints: one graph for each
\* multiset of edges
DfsBuildNode == BuildNodeTo(DfsNodes)

DfsBuildEdge ==
    /\ MayCall
    /\ order(g) = DfsNodes
    /\ size(g) < DfsEdges
    /\ \E s \in 1..DfsNodes, e \in 1..DfsNodes, d \in BOOLEAN :
           /\ \A f \in Range(g.ge) :
                  PairLeq(name(g.edges[f].start), name(g.edges[f].end), s, e)
           /\ AddEdgeCall(Ref("name", s), Ref("elem", e), DfsNodes + size(g) + 1, d)
    /\ Counted
    /\ UNCHANGED <<sp, al, wk, dag>>

DfsStart ==
    /\ tr.pc = "idle"
    /\ order(g) = DfsNodes
    /\ tr' = heuristic_traversal(Ref("name", 1), "dfs")
    /\ UNCHANGED <<g, last, reuses, sp, al, wk, dag>>

NextDfs == DfsBuildNode \/ DfsBuildEdge \/ DfsStart \/ TravNext

SpecDfs == Init /\ [][NextDfs]_vars

\* ------------------------------------------ acyclic graphs: the actions
DagAddNode ==
    /\ dag.made < DagNodes
    /\ dag' = container_add_node(dag)
    /\ UNCHANGED <<g, last, reuses, tr, sp, al, wk>>

\* the endpoints are any two of the nodes made, removed ones too
DagAddEdge ==
    /\ dag.emade < DagEdges
    /\ \E start \in 1..dag.made, end \in 1..dag.made : dag' = acyclic_add_edge(dag, start, end)
    /\ UNCHANGED <<g, last, reuses, tr, sp, al, wk>>

DagRemoveNode ==
    /\ \E node \in 1..dag.made : dag' = container_remove_node(dag, node)
    /\ UNCHANGED <<g, last, reuses, tr, sp, al, wk>>

DagRemoveEdge ==
    /\ \E edge \in Range(dag.edges) \cup {NoEdge} : dag' = container_remove_edge(dag, edge)
    /\ UNCHANGED <<g, last, reuses, tr, sp, al, wk>>

NextDag == DagAddNode \/ DagAddEdge \/ DagRemoveNode \/ DagRemoveEdge

SpecDag == Init /\ [][NextDag]_vars

\* a Node that is in no graph: one of another graph, or one that was removed
Foreign == <<"n", 0, 0>>
WithForeign(G) == [G EXCEPT !.nodes = DictSet(@, Foreign, NewNode)]

\* a name no element carries
UnknownName == Str(MoveNodes + MoveEdges + 2)

\* what move_edge may be handed as start or end: nothing, a node of the
\* graph, a node of no graph, the name 0 (false, as None is), a name no
\* node carries, the name of a node
MoveArgs(G) ==
    {None, Foreign, Str(0), UnknownName} \cup Range(G.gn) \cup {Str(nm) : nm \in DOMAIN G.gn}

\* the names move_edge may be handed as edge: those of the edges and one
\* more, which no element carries
MoveNames(G) == (MoveNodes + 1)..(MoveNodes + size(G) + 1)

MoveEdge ==
    /\ Building
    /\ \E nm \in MoveNames(g), k \in RefKinds, start \in MoveArgs(g), end \in MoveArgs(g) :
           \E r \in {move_edge(WithForeign(g), Ref(k, nm), start, end)} :
               /\ g' = Settle(r.g)
               /\ last' = CallRet("move_edge", nm, g, r)
    /\ UNCHANGED <<reuses, tr, sp, al, wk, dag>>

MoveBuildNode == Building /\ BuildNodeTo(MoveNodes)

MoveBuildEdge == Building /\ BuildEdgeTo(MoveNodes, MoveEdges)

NextMove == MoveBuildNode \/ MoveBuildEdge \/ MoveEdge

SpecMove == Init /\ [][NextMove]_vars


\* ============================================================ properties
Fields == {"inc", "out", "bi"}
StoredEdges(G) == Range(G.ge)
Occ(G, n, field, e) == CountIs(G.nodes[n][field], e)
Bit(b) == IF b THEN 1 ELSE 0

\* no adjacency list of the graph holds an entry equal to e
Absent(G, e) == \A n \in DOMAIN G.nodes : \A f \in Fields : ~ListContains(G.nodes[n][f], e)

\* l without the entries that are in the set S
Without(l, S) == SelectSeq(l, LAMBDA x : x \notin S)

\* the stored edges that start or end at the node object n
IncidentEdges(G, n) == {e \in StoredEdges(G) : G.edges[e].start = n \/ G.edges[e].end = n}

DirectedListed(G, e) ==
    \A n \in DOMAIN G.nodes :
        /\ Occ(G, n, "out", e) = Bit(n = G.edges[e].start)
        /\ Occ(G, n, "inc", e) = Bit(n = G.edges[e].end)
        /\ Occ(G, n, "bi", e) = 0

UndirectedListed(G, e) ==
    \A n \in DOMAIN G.nodes :
        LET ends == (n = G.edges[e].start \/ n = G.edges[e].end)
        IN  /\ Occ(G, n, "bi", e) = Bit(ends)
            /\ Occ(G, n, "out", e) = 0
            /\ Occ(G, n, "inc", e) = 0
            /\ CountIs(node_incoming(G, n), e) = Bit(ends)
            /\ CountIs(node_outgoing(G, n), e) = Bit(ends)

\* C1: while no name has been reused, every stored directed edge is listed
\* exactly once in its start's outgoing list, exactly once in its end's
\* incoming list and in no other adjacency list of any node, and
\* remove_edge on it succeeds and leaves it in no list.
C1_DirectedAdjacency ==
    reuses = 0 =>
        \A nm \in DOMAIN g.ge :
            LET e == g.ge[nm]
            IN  g.edges[e].directed =>
                    /\ DirectedListed(g, e)
                    /\ \A k \in RefKinds :
                           LET r == remove_edge(g, Ref(k, nm))
                           IN  r.err = "none" /\ r.ret = e /\ Absent(r.g, e)
                               /\ nm \notin DOMAIN r.g.ge

\* a directed edge was removed by remove_edge and a directed edge is stored
C1_Witness ==
    /\ reuses = 0
    /\ last.op = "remove_edge" /\ last.err = "none" /\ last.el.directed
    /\ \E nm \in DOMAIN g.ge : g.edges[g.ge[nm]].directed

\* C2: while no name has been reused, every stored undirected edge is listed
\* exactly once in the bidirectional list of each endpoint (once in all for a
\* loop), hence once in the incoming and the outgoing view of each endpoint,
\* and in no other list; remove_edge on it succeeds and removes exactly those
\* entries.
C2_UndirectedAdjacency ==
    reuses = 0 =>
        \A nm \in DOMAIN g.ge :
            LET e == g.ge[nm]
            IN  ~g.edges[e].directed =>
                    /\ UndirectedListed(g, e)
                    /\ \A k \in RefKinds :
                           LET r == remove_edge(g, Ref(k, nm))
                           IN  /\ r.err = "none" /\ r.ret = e
                               /\ DOMAIN r.g.nodes = DOMAIN g.nodes
                               /\ \A n \in DOMAIN g.nodes : \A f \in Fields :
                                      r.g.nodes[n][f] = Without(g.nodes[n][f], {e})

\* an undirected edge was removed by remove_edge and an undirected loop is
\* stored
C2_Witness ==
    /\ reuses = 0
    /\ last.op = "remove_edge" /\ last.err = "none" /\ ~last.el.directed
    /\ \E nm \in DOMAIN g.ge :
           /\ ~g.edges[g.ge[nm]].directed
           /\ g.edges[g.ge[nm]].start = g.edges[g.ge[nm]].end

\* C3: every stored edge starts and ends at node objects that are stored in
\* the graph under their names, add_node with a name in use included.
C3_EndpointsStored ==
    \A nm \in DOMAIN g.ge :
        \A x \in {g.edges[g.ge[nm]].start, g.edges[g.ge[nm]].end} :
            name(x) \in DOMAIN g.gn /\ g.gn[name(x)] = x

\* C4: while no name has been reused, remove_node on a stored node, given
\* as a node or as a name, succeeds and returns that node; the node is no
\* member afterwards, order() has dropped by one, size() by the number of
\* edges that were incident to it, exactly those edges have left the edge
\* store, and the lists of the other nodes have lost exactly those entries.
C4_RemoveNodeCascades ==
    reuses = 0 =>
        \A nm \in DOMAIN g.gn : \A k \in RefKinds :
            \A ord \in RemoveOrders(g, Ref(k, nm)) :
                LET n == g.gn[nm]
                    gone == IncidentEdges(g, n)
                    r == remove_node(g, Ref(k, nm), ord)
                IN  /\ r.err = "none" /\ r.ret = n
                    /\ ~contains_name(r.g, nm)
                    /\ order(r.g) = order(g) - 1
                    /\ size(r.g) = size(g) - Cardinality(gone)
                    /\ StoredEdges(r.g) = StoredEdges(g) \ gone
                    /\ \A m \in Range(r.g.gn) : \A f \in Fields :
                           r.g.nodes[m][f] = Without(g.nodes[m][f], gone)

\* remove_node took two edges with it, among them a loop, and left a node
C4_Witness ==
    /\ reuses = 0
    /\ last.op = "remove_node" /\ last.err = "none"
    /\ last.size0 - size(g) = 2
    /\ \E i \in 1..Len(last.el.inc) : \E j \in 1..Len(last.el.out) : last.el.inc[i] = last.el.out[j]
    /\ order(g) >= 1

\* C5: add_edge whose start or end resolves to no element of the graph
\* raises KeyError and leaves the graph as it was.
C5_AddEdgeUnknownEndpoint ==
    \A s \in Names, e \in Names, ks \in RefKinds, ke \in RefKinds, nm \in EdgeNames, d \in BOOLEAN :
        (~contains_name(g, s) \/ ~contains_name(g, e)) =>
            LET r == add_edge(g, Ref(ks, s), Ref(ke, e), nm, d)
            IN  r.err = "KeyError" /\ r.g = g

\* add_edge has raised KeyError on a graph that holds a node and an edge
C5_Witness ==
    /\ last.op = "add_edge" /\ last.err = "KeyError"
    /\ order(g) = 1 /\ size(g) = 1

\* C6: add_node with a name a stored node carries stores a new node object
\* under the name: lookup gives the new object, order() and size() keep their
\* values, every edge object is as before (an edge of the old node still
\* starts or ends at the old object, which keeps its lists), and the lists
\* of the new node are empty.
C6_AddNodeReplaces ==
    \A nm \in DOMAIN g.gn :
        CanAlloc(g, "n", nm) =>
            LET old == g.gn[nm]
                r == add_node(g, nm)
            IN  /\ r.err = "none"
                /\ r.ret # old
                /\ getitem(r.g, nm).ret = r.ret
                /\ order(r.g) = order(g) /\ size(r.g) = size(g)
                /\ r.g.ge = g.ge /\ r.g.edges = g.edges
                /\ r.g.nodes[old] = g.nodes[old]
                /\ r.g.nodes[r.ret] = NewNode

\* add_node was given the name of a node that had an edge, and that edge is
\* stored with an endpoint that is not the node stored under the name
C6_Witness ==
    /\ last.op = "add_node" /\ last.err = "none"
    /\ last.el # NoEl
    /\ Len(last.el.inc) + Len(last.el.out) + Len(last.el.bi) > 0
    /\ size(g) = last.size0
    /\ \E nm \in DOMAIN g.ge :
           /\ name(g.edges[g.ge[nm]].start) = last.arg
           /\ g.edges[g.ge[nm]].start # g.gn[last.arg]
    /\ g.nodes[g.gn[last.arg]] = NewNode

\* ------------------------------------------------ traversal properties
NoDup(l) == \A i, j \in 1..Len(l) : i # j => l[i] # l[j]

\* the nodes one edge leads to from n: along a directed edge from its start
\* to its end, along an undirected edge either way
Succ(G, n) ==
    {G.edges[e].end : e \in {x \in StoredEdges(G) : G.edges[x].start = n}}
    \cup {G.edges[e].start : e \in {x \in StoredEdges(G) : ~G.edges[x].directed /\ G.edges[x].end = n}}

\* the nodes an edge leads from to n
Pred(G, n) == {m \in Range(G.gn) : n \in Succ(G, m)}

\* the nodes within k hops of root
RECURSIVE Ball(_, _, _)
Ball(G, root, k) ==
    IF k = 0 THEN {root}
    ELSE LET B == Ball(G, root, k - 1) IN B \cup UNION {Succ(G, n) : n \in B}

Reachable(G, root) == Ball(G, root, order(G))

\* hop-distance from root; order(G) + 1 for a node out of reach
Dist(G, root, n) ==
    IF n \notin Reachable(G, root) THEN order(G) + 1
    ELSE CHOOSE k \in 0..order(G) : n \in Ball(G, root, k) /\ (k = 0 \/ n \notin Ball(G, root, k - 1))

\* C7: a traversal whose selector takes one entry of the discovered list at
\* a time never yields a node twice, and once started it comes to its end,
\* whatever the selector and whatever cycles, loops and parallel edges the
\* graph has, also when nodes and edges are added between two calls of
\* next(): a generator suspended at its yield is resumed only to yield
\* again or to return, and it is not suspended there for ever.
C7_TraversalTerminates ==
    /\ [](NoDup(tr.yielded))
    /\ [][tr.pc = "run" => tr'.pc \in {"run", "done"}]_vars
    /\ <>[](tr.pc # "run")

\* a traversal has ended after yielding three nodes, the third of which was
\* met twice: it is adjacent to the root and to the node yielded second,
\* so it was in the discovered list, beside the other one, when it was met
\* again
C7_Witness ==
    /\ tr.pc = "done"
    /\ Len(tr.yielded) = 3
    /\ tr.yielded[1] = tr.root
    /\ \E x, y, z \in StoredEdges(g) :
           /\ g.edges[x].start = tr.root /\ g.edges[x].end = tr.yielded[2]
           /\ g.edges[y].start = tr.root /\ g.edges[y].end = tr.yielded[3]
           /\ g.edges[z].start = tr.yielded[2] /\ g.edges[z].end = tr.yielded[3]

\* C8: when a depth-first, breadth-first or heuristic traversal has ended
\* on a graph that was not changed meanwhile, the nodes it yielded are
\* exactly the nodes that can be reached from the root along directed edges
\* from start to end and undirected edges either way (all nodes of the model
\* carry the same, empty, attribute data).
C8_YieldsReachable ==
    (tr.pc = "done" /\ Undisturbed) => Range(tr.yielded) = Reachable(g, tr.root)

\* a traversal has ended that yielded three nodes, one of them reached
\* against the stored direction of an undirected edge, and left one out
C8_Witness ==
    /\ tr.pc = "done" /\ Undisturbed
    /\ Len(tr.yielded) = 3
    /\ order(g) = 4
    /\ \E x \in StoredEdges(g) : \E i, j \in 1..Len(tr.yielded) :
           /\ ~g.edges[x].directed /\ i < j
           /\ g.edges[x].end = tr.yielded[i] /\ g.edges[x].start = tr.yielded[j]
           /\ Pred(g, tr.yielded[j]) = {tr.yielded[i]}

\* C9: a breadth-first traversal of a graph that is not changed meanwhile
\* yields the nodes in order of hop-distance from the root: a node at
\* distance k comes before every node at distance k + 1, in whatever order
\* neighbours are discovered.
C9_BreadthFirstLayers ==
    (tr.sel = "bfs" /\ Undisturbed) =>
        \A i, j \in 1..Len(tr.yielded) :
            i < j => Dist(g, tr.root, tr.yielded[i]) <= Dist(g, tr.root, tr.yielded[j])

\* a breadth-first traversal has ended with two nodes at distance 1 and one
\* at distance 2
C9_Witness ==
    /\ tr.pc = "done" /\ tr.sel = "bfs" /\ Undisturbed
    /\ Len(tr.yielded) = 4
    /\ Dist(g, tr.root, tr.yielded[2]) = 1
    /\ Dist(g, tr.root, tr.yielded[3]) = 1
    /\ Dist(g, tr.root, tr.yielded[4]) = 2

\* C10: a depth-first traversal of a graph that is not changed meanwhile
\* yields the root first and every other node after some node that has an
\* edge leading to it; a node other than the root whose only in-neighbour is
\* p comes after p.
C10_DepthFirstParentFirst ==
    (tr.sel = "dfs" /\ tr.yielded # <<>> /\ Undisturbed) =>
        /\ tr.yielded[1] = tr.root
        /\ \A j \in 2..Len(tr.yielded) :
               /\ \E i \in 1..(j - 1) : tr.yielded[j] \in Succ(g, tr.yielded[i])
               /\ \A p \in Range(g.gn) :
                      Pred(g, tr.yielded[j]) = {p} => \E i \in 1..(j - 1) : tr.yielded[i] = p

\* a depth-first traversal has ended on root -> a -> b with a second child
\* of the root yielded after b
C10_Witness ==
    /\ tr.pc = "done" /\ tr.sel = "dfs" /\ Undisturbed
    /\ Len(tr.yielded) = 4
    /\ Pred(g, tr.yielded[2]) = {tr.root}
    /\ Pred(g, tr.yielded[3]) = {tr.yielded[2]}
    /\ Pred(g, tr.yielded[4]) = {tr.root}

\* ------------------------------------------- shortest path properties
\* the ways one edge leads from a node to a node: <<from, to, edge>>
Arcs(G) ==
    {<<G.edges[e].start, G.edges[e].end, e>> : e \in StoredEdges(G)}
    \cup {<<G.edges[e].end, G.edges[e].start, e>> : e \in {x \in StoredEdges(G) : ~G.edges[x].directed}}

SetMin(S) == CHOOSE x \in S : \A y \in S : x <= y

\* the least weight of a walk of at most k edges from src to each node,
\* Inf where there is none
RECURSIVE LeastWeights(_, _, _, _)
LeastWeights(G, w, src, k) ==
    IF k = 0 THEN [n \in Range(G.gn) |-> IF n = src THEN 0 ELSE Inf]
    ELSE LET prev == LeastWeights(G, w, src, k - 1)
         IN  [n \in Range(G.gn) |->
                 SetMin({prev[n]} \cup {prev[a[1]] + w[name(a[3])] :
                                          a \in {b \in Arcs(G) : b[2] = n /\ prev[b[1]] # Inf}})]

\* the node the edge list p leads to from cur, None if it is not contiguous
RECURSIVE WalkEnd(_, _, _)
WalkEnd(G, cur, p) ==
    IF p = <<>> THEN cur
    ELSE IF <<cur, G.edges[Head(p)].end, Head(p)>> \in Arcs(G) /\ G.edges[Head(p)].start = cur
         THEN WalkEnd(G, G.edges[Head(p)].end, Tail(p))
    ELSE IF <<cur, G.edges[Head(p)].start, Head(p)>> \in Arcs(G)
         THEN WalkEnd(G, G.edges[Head(p)].start, Tail(p))
    ELSE None

RECURSIVE PathWeight(_, _)
PathWeight(w, p) == IF p = <<>> THEN 0 ELSE w[name(Head(p))] + PathWeight(w, Tail(p))

NonNegative(w) == \A e \in DOMAIN w : w[e] >= 0

\* C11: with non-negative weights, when get_shortest_paths(source) has
\* returned, every node t reachable from source is mapped to (d, p), d the
\* least total weight of a path from source to t and p a contiguous list of
\* edges from source to t whose weights sum to d.
C11_ShortestPaths ==
    (sp.pc = "done" /\ NonNegative(sp.w)) =>
        \A t \in Reachable(g, sp.source) :
            /\ t \in DOMAIN sp.paths
            /\ sp.paths[t][1] = LeastWeights(g, sp.w, sp.source, order(g))[t]
            /\ WalkEnd(g, sp.source, sp.paths[t][2]) = t
            /\ PathWeight(sp.w, sp.paths[t][2]) = sp.paths[t][1]

\* the call has returned on a graph where a path of two edges is cheaper
\* than the edge from the source to the same node, and was taken
C11_Witness ==
    /\ sp.pc = "done"
    /\ \E t \in DOMAIN sp.paths : \E a \in Arcs(g) :
           /\ a[1] = sp.source /\ a[2] = t /\ t # sp.source
           /\ sp.w[name(a[3])] > sp.paths[t][1]
           /\ Len(sp.paths[t][2]) = 2
           /\ sp.paths[t][1] > 0

\* C12: whenever get_shortest_paths(source) returns, whatever the weights
\* (negative ones included), the source is mapped to (0, []).
C12_SourceEntry ==
    sp.pc = "done" =>
        /\ sp.source \in DOMAIN sp.paths
        /\ sp.paths[sp.source] = <<0, <<>>>>

\* the call has returned on a graph with a loop on the source and a cycle
\* through the source that has an edge of negative weight
C12_Witness ==
    /\ sp.pc = "done"
    /\ \E a \in Arcs(g) : a[1] = sp.source /\ a[2] = sp.source
    /\ \E a, b \in Arcs(g) :
           /\ a[1] = sp.source /\ a[2] # sp.source
           /\ b[1] = a[2] /\ b[2] = sp.source /\ a[3] # b[3]
           /\ sp.w[name(a[3])] < 0

\* C13: with non-negative weights get_shortest_paths(source) comes to its
\* end, and the keys of the mapping it returns are exactly the nodes
\* reachable from source.
C13_TerminatesOnReachable ==
    /\ []((sp.pc = "done" /\ NonNegative(sp.w)) => DOMAIN sp.paths = Reachable(g, sp.source))
    /\ (sp.pc = "run" /\ NonNegative(sp.w)) ~> (sp.pc = "done")

\* the call has returned with non-negative weights on a graph with a cycle
\* of zero weight through the source, leaving a node out
C13_Witness ==
    /\ sp.pc = "done" /\ NonNegative(sp.w)
    /\ Cardinality(DOMAIN sp.paths) = 2
    /\ order(g) = EndNodes
    /\ \E a, b \in Arcs(g) :
           /\ a[1] = sp.source /\ a[2] # sp.source
           /\ b[1] = a[2] /\ b[2] = sp.source
           /\ sp.w[name(a[3])] = 0 /\ sp.w[name(b[3])] = 0

\* ------------------------------------- component and move properties
\* a and b are joined by a chain of edges, whatever their direction
RECURSIVE WeakBall(_, _, _)
WeakBall(G, a, k) ==
    IF k = 0 THEN {a}
    ELSE LET B == WeakBall(G, a, k - 1)
         IN  B \cup UNION {Succ(G, n) \cup Pred(G, n) : n \in B}

WeaklyConnected(G, a, b) == b \in WeakBall(G, a, order(G))

\* one returned set holds both a and b
Together(l, a, b) == \E i \in 1..Len(l) : a \in l[i] /\ b \in l[i]

\* the two graphs hold the same elements, every edge with the same start,
\* end and direction, every adjacency list with the same edges as often
SameGraph(G, H) ==
    /\ G.gn = H.gn /\ G.ge = H.ge /\ G.edges = H.edges
    /\ DOMAIN G.nodes = DOMAIN H.nodes
    /\ \A n \in DOMAIN G.nodes : \A f \in Fields :
           /\ Len(G.nodes[n][f]) = Len(H.nodes[n][f])
           /\ \A e \in DOMAIN G.edges : Occ(G, n, f, e) = Occ(H, n, f, e)

\* C14: get_connected_components() returns a partition of the node set:
\* the returned sets are pairwise disjoint, none is a subset of another, and
\* their union is the set of all nodes.
C14_ComponentsPartition ==
    (last.op = "get_connected_components" /\ last.err = "none") =>
        /\ \A i, j \in 1..Len(last.ret) :
               i # j => /\ last.ret[i] \cap last.ret[j] = {}
                        /\ ~(last.ret[i] \subseteq last.ret[j])
        /\ UNION {last.ret[i] : i \in 1..Len(last.ret)} = Range(g.gn)

\* C15: two nodes are in the same set returned by get_connected_components()
\* if and only if a chain of edges joins them, whatever the direction of
\* the edges.
C15_ComponentsIgnoreDirection ==
    (last.op = "get_connected_components" /\ last.err = "none") =>
        \A a, b \in Range(g.gn) : Together(last.ret, a, b) <=> WeaklyConnected(g, a, b)

\* C16: get_strongly_connected() returns the strongly connected components:
\* every node is in exactly one returned set, and two nodes are in the same
\* set if and only if each is reachable from the other along the edges.
C16_StronglyConnected ==
    (last.op = "get_strongly_connected" /\ last.err = "none") =>
        /\ \A n \in Range(g.gn) : Cardinality({i \in 1..Len(last.ret) : n \in last.ret[i]}) = 1
        /\ \A a, b \in Range(g.gn) :
               Together(last.ret, a, b) <=> (b \in Reachable(g, a) /\ a \in Reachable(g, b))

\* C17: when get_strongly_connected() returns, every edge has the start,
\* end and direction it had before the call and every adjacency list holds
\* the edges it held before.
C17_StronglyConnectedRestores ==
    [][(last'.op = "get_strongly_connected" /\ last'.err = "none") => SameGraph(g, g')]_vars

\* get_strongly_connected() has returned on a graph of two components with
\* a directed edge, an undirected edge and a loop
C17_Witness ==
    /\ last.op = "get_strongly_connected" /\ last.err = "none"
    /\ \E a, b \in Range(g.gn) : ~WeaklyConnected(g, a, b)
    /\ \E x, y, z \in StoredEdges(g) :
           /\ g.edges[x].directed /\ g.edges[x].start # g.edges[x].end
           /\ ~g.edges[y].directed /\ g.edges[y].start # g.edges[y].end
           /\ g.edges[z].start = g.edges[z].end

\* C18: transpose() called twice restores the graph: every edge has its
\* start and end again, and every adjacency list holds the same edges as
\* often as before the two calls.
C18_TransposeTwice ==
    LET once == transpose(g)
        twice == transpose(once.g)
    IN  /\ once.err = "none"
        /\ twice.err = "none"
        /\ SameGraph(g, twice.g)

\* transpose() has been called on a graph with a directed edge, an
\* undirected edge parallel to it and a loop
C18_Witness ==
    /\ last.op = "transpose" /\ last.err = "none"
    /\ \E x, y, z \in StoredEdges(g) :
           /\ g.edges[x].directed /\ g.edges[x].start # g.edges[x].end
           /\ ~g.edges[y].directed
           /\ {g.edges[y].start, g.edges[y].end} = {g.edges[x].start, g.edges[x].end}
           /\ g.edges[z].start = g.edges[z].end

\* C19: move_edge(e, start, end), each of start and end a node of the graph
\* or left out, returns e with its direction unchanged, start and end set
\* as given (kept where left out), and e listed exactly once in the proper
\* list of each new endpoint and in no other list.
C19_MoveEdge ==
    Building =>
        \A e \in StoredEdges(g) : \A start, end \in {None} \cup Range(g.gn) :
            LET r == move_edge(g, Ref("elem", name(e)), start, end)
            IN  /\ r.err = "none"
                /\ r.ret = e
                /\ r.g.ge = g.ge
                /\ r.g.edges[e].directed = g.edges[e].directed
                /\ r.g.edges[e].start = (IF start = None THEN g.edges[e].start ELSE start)
                /\ r.g.edges[e].end = (IF end = None THEN g.edges[e].end ELSE end)
                /\ IF g.edges[e].directed THEN DirectedListed(r.g, e) ELSE UndirectedListed(r.g, e)

\* C20: move_edge with an edge the graph does not hold, or with a start or
\* end that is a node of no graph or a name no node carries, raises
\* KeyError and leaves the graph as it was.
C20_MoveEdgeUnknown ==
    Building =>
        \A nm \in MoveNames(g), k \in RefKinds, start \in MoveArgs(g), end \in MoveArgs(g) :
            (nm \notin DOMAIN g.ge \/ {start, end} \cap {Foreign, Str(0), UnknownName} # {}) =>
                LET r == move_edge(WithForeign(g), Ref(k, nm), start, end)
                IN  r.err = "KeyError" /\ r.g = WithForeign(g)

\* ---------------------------------------------- contraction properties
\* another stored edge joins the endpoints of e
Parallel(G, e) ==
    \E f \in StoredEdges(G) :
        /\ f # e
        /\ {G.edges[f].start, G.edges[f].end} = {G.edges[e].start, G.edges[e].end}

\* the endpoint x after the contraction of e into n
Merged(G, e, n, x) == IF x \in {G.edges[e].start, G.edges[e].end} THEN n ELSE x

\* C21: contract_edge(e, combine_fn), when more than one edge connects the
\* endpoints of e, fails with AmbiguousContractionError and leaves the
\* graph as it was.
C21_AmbiguousContraction ==
    Building =>
        \A e \in StoredEdges(g) :
            Parallel(g, e) =>
                \A r \in contract_edge(g, Ref("elem", name(e)), ContractName) :
                    r.err = "AmbiguousContractionError" /\ r.g = g

\* C22: contract_edge(e, combine_fn), e the only edge between two distinct
\* nodes s and t, adds one new node n, removes e, s and t, and leaves every
\* other edge with its name and direction and with the endpoints it had,
\* n standing in for s and for t; order() and size() each drop by one.
C22_Contraction ==
    Building =>
        \A e \in StoredEdges(g) :
            (g.edges[e].start # g.edges[e].end /\ ~Parallel(g, e)) =>
                \A r \in contract_edge(g, Ref("elem", name(e)), ContractName) :
                    /\ r.err = "none"
                    /\ r.ret \notin Heap(g)
                    /\ Range(r.g.gn) = (Range(g.gn) \ {g.edges[e].start, g.edges[e].end})
                                           \cup {r.ret}
                    /\ Range(r.g.ge) = Range(g.ge) \ {e}
                    /\ \A f \in Range(g.ge) \ {e} :
                           /\ r.g.ge[name(f)] = f
                           /\ r.g.edges[f].directed = g.edges[f].directed
                           /\ r.g.edges[f].start = Merged(g, e, r.ret, g.edges[f].start)
                           /\ r.g.edges[f].end = Merged(g, e, r.ret, g.edges[f].end)
                    /\ order(r.g) = order(g) - 1
                    /\ size(r.g) = size(g) - 1

\* -------------------------------------------------- algebra properties
\* an operation has been called: its operands, its result, the heap
Called(op) == al.pc = "done" /\ al.op = op
Result == Tab(al.g)

\* the names of the endpoints of the edge e
EndNames(G, e) == {name(G.edges[e].start), name(G.edges[e].end)}

\* the edge e of the result is the edge f of an operand: same name, same
\* names of start and end, same direction, same attribute data
SameEdge(G, e, f) ==
    /\ name(e) = name(f)
    /\ name(G.edges[e].start) = name(G.edges[f].start)
    /\ name(G.edges[e].end) = name(G.edges[f].end)
    /\ G.edges[e].directed = G.edges[f].directed
    /\ G.data[e] = G.data[f]

\* structural equivalence of two edges: equal data, same direction,
\* endpoints of equal data
Equivalent(G, e, f) ==
    /\ G.data[e] = G.data[f]
    /\ G.edges[e].directed = G.edges[f].directed
    /\ G.data[G.edges[e].start] = G.data[G.edges[f].start]
    /\ G.data[G.edges[e].end] = G.data[G.edges[f].end]

\* the objects of a graph: its elements and what they refer to
Objects(G, t) == Closure(G, Range(t.gn) \cup Range(t.ge))

\* the objects of S are in H what they are in G
Untouched(G, H, S) ==
    \A o \in S :
        /\ o \in DOMAIN G.nodes => o \in DOMAIN H.nodes /\ H.nodes[o] = G.nodes[o]
        /\ o \in DOMAIN G.edges => o \in DOMAIN H.edges /\ H.edges[o] = G.edges[o]
        /\ o \in DOMAIN G.data => o \in DOMAIN H.data /\ H.data[o] = G.data[o]

\* C23: induce_subgraph over a set S of nodes of G returns a graph with
\* the nodes named in S, each with the data it has in G, and with exactly
\* the edges of G whose start and end are both in S, each with its name,
\* endpoint names, data and direction; for the full node set that is a
\* graph isomorphic to G.
C23_InduceSubgraph ==
    Called("induce_subgraph") =>
        LET S == {al.arg[i][2] : i \in 1..Len(al.arg)}
        IN  /\ al.err = "none"
            /\ DOMAIN Result.gn = S
            /\ \A nm \in S : al.g.data[Result.gn[nm]] = al.g.data[al.a.gn[nm]]
            /\ DOMAIN Result.ge = {nm \in DOMAIN al.a.ge : EndNames(al.g, al.a.ge[nm]) \subseteq S}
            /\ \A nm \in DOMAIN Result.ge : SameEdge(al.g, Result.ge[nm], al.a.ge[nm])

\* C24: union, intersection, difference, induce_subgraph and
\* edge_induce_subgraph leave every object of their operands as it was,
\* the returned graph holds none of these objects, and removing an edge of
\* the result afterwards changes none of them.
C24_OperandsUntouched ==
    [][(al.pc = "b" /\ al'.pc = "done") =>
          LET operands == Objects(al.g, al.a) \cup Objects(al.g, Tab(al.g))
          IN  /\ al'.a = al.a
              /\ al'.b = Tab(al.g)
              /\ Untouched(al.g, al'.g, operands)
              /\ Objects(al'.g, Tab(al'.g)) \cap operands = {}
              /\ \A nm \in DOMAIN al'.g.ge :
                     Untouched(al.g, remove_edge(al'.g, Ref("name", nm)).g, operands)]_vars

\* an operation has returned a graph with a node and an edge, on operands
\* that hold a node of the same name and an edge each
C24_Witness ==
    /\ al.pc = "done" /\ al.err = "none"
    /\ DOMAIN al.g.ge # {} /\ DOMAIN al.a.ge # {} /\ DOMAIN al.b.ge # {}
    /\ DOMAIN al.a.gn \cap DOMAIN al.b.gn \cap DOMAIN al.g.gn # {}

\* C25: when no node of A has the data of a node of B, the union of A and
\* B has order(A) + order(B) nodes.
C25_UnionOrder ==
    (Called("union") /\ al.err = "none"
     /\ \A x \in Range(al.a.gn), y \in Range(al.b.gn) : al.g.data[x] # al.g.data[y]) =>
        order(al.g) = Cardinality(DOMAIN al.a.gn) + Cardinality(DOMAIN al.b.gn)

\* C26: the union of A and B has the node names of A and of B and the edge
\* names of A and of B, and every edge of it has the endpoint names, the
\* direction and the data of a parent edge of its name.
C26_UnionElements ==
    Called("union") =>
        /\ al.err = "none"
        /\ DOMAIN Result.gn = DOMAIN al.a.gn \cup DOMAIN al.b.gn
        /\ DOMAIN Result.ge = DOMAIN al.a.ge \cup DOMAIN al.b.ge
        /\ \A nm \in DOMAIN Result.ge :
               \E t \in {al.a, al.b} :
                   nm \in DOMAIN t.ge /\ SameEdge(al.g, Result.ge[nm], t.ge[nm])

\* C27: the intersection of A and B holds a node exactly when a node of
\* that name is in A and in B, and an edge exactly when an edge of that
\* name is in A and in B with both endpoints in the result; order() and
\* size() count each once, and with no shared name the result is empty.
C27_Intersection ==
    Called("intersection") =>
        LET common == DOMAIN al.a.gn \cap DOMAIN al.b.gn
            shared == {nm \in DOMAIN al.a.ge \cap DOMAIN al.b.ge :
                          \E t \in {al.a, al.b} : EndNames(al.g, t.ge[nm]) \subseteq common}
        IN  /\ al.err = "none"
            /\ DOMAIN Result.gn = common
            /\ DOMAIN Result.ge = shared
            /\ order(al.g) = Cardinality(common)
            /\ size(al.g) = Cardinality(shared)
            /\ \A nm \in shared : EndNames(al.g, Result.ge[nm]) \subseteq DOMAIN Result.gn

\* an intersection has kept a node and an edge and has left out a node and
\* an edge whose name is in both graphs
C27_Witness ==
    /\ Called("intersection") /\ al.err = "none"
    /\ DOMAIN Result.ge # {}
    /\ DOMAIN al.a.gn # DOMAIN al.b.gn

\* C28: an edge of A is in the intersection of A and B if and only if B
\* holds an edge with equal data, the same direction and endpoints of
\* equal data.
C28_IntersectionEquivalence ==
    (Called("intersection") /\ al.err = "none") =>
        \A e \in Range(al.a.ge) :
            name(e) \in DOMAIN Result.ge <=> \E f \in Range(al.b.ge) : Equivalent(al.g, e, f)

\* C29: the difference of A and B holds exactly the nodes of A with no
\* node of that name in B and exactly the edges of A with no edge of that
\* name in B whose endpoints are both kept, each with its name, endpoints,
\* data and direction.
C29_Difference ==
    Called("difference") =>
        LET kept == DOMAIN al.a.gn \ DOMAIN al.b.gn
        IN  /\ al.err = "none"
            /\ DOMAIN Result.gn = kept
            /\ DOMAIN Result.ge = {nm \in DOMAIN al.a.ge \ DOMAIN al.b.ge :
                                       EndNames(al.g, al.a.ge[nm]) \subseteq kept}
            /\ \A nm \in DOMAIN Result.ge : SameEdge(al.g, Result.ge[nm], al.a.ge[nm])

\* ----------------------------------------------------- walk properties
\* C30: in a walk the frontier handed out is the list of the nodes
\* adjacent to the start and then to the node sent last (over incoming
\* edges in a reverse walk), whatever was sent before; sending None ends
\* the walk; the graph is never modified.
C30_WalkProtocol ==
    /\ wk.pc # "idle" => g = wk.g0
    /\ wk.pc \in {"candidates", "sent"} =>
           /\ NoDup(wk.candidates)
           /\ Range(wk.candidates) = (IF wk.reverse THEN Pred(g, wk.next) ELSE Succ(g, wk.next))
    /\ (wk.sent # <<>> /\ wk.sent[Len(wk.sent)] = None) => (wk.pc = "done" /\ wk.err = "none")

\* ------------------------------------------------- element properties
\* C31: e.other_end(n) returns e.end when n is e's start, returns e.start
\* when e is undirected and n is e's end (the node itself for a self-loop),
\* and raises AttributeError when e is directed and n is only its end or
\* when n is no endpoint of e; the edge and the graph are left as they were.
\* The object that is a node's name stands for the node, an equal name that
\* is another object for no endpoint.
C31_OtherEnd ==
    \A e \in DOMAIN g.edges : \A n \in DOMAIN g.nodes :
        LET r == other_end(g, e, n)
            start == g.edges[e].start
            end == g.edges[e].end
        IN  /\ r.g = g
            /\ n = start => (r.err = "none" /\ r.ret = end)
            /\ (~g.edges[e].directed /\ n = end /\ n # start) => (r.err = "none" /\ r.ret = start)
            /\ (start = end /\ n = start) => (r.err = "none" /\ r.ret = n)
            /\ (g.edges[e].directed /\ n = end /\ n # start) => r.err = "AttributeError"
            /\ n \notin {start, end} => r.err = "AttributeError"
            /\ other_end(g, e, Str(name(n))) = r
            /\ other_end(g, e, StrOther(name(n))) = Raise(g, "AttributeError")

\* a directed edge and an undirected edge between two nodes, a self-loop,
\* and a node that is an endpoint of none of them
C31_Witness ==
    \E x, y, z \in StoredEdges(g) : \E n \in Range(g.gn) :
        /\ g.edges[x].directed /\ g.edges[x].start # g.edges[x].end
        /\ ~g.edges[y].directed /\ g.edges[y].start # g.edges[y].end
        /\ g.edges[z].start = g.edges[z].end
        /\ \A e \in {x, y, z} : n \notin {g.edges[e].start, g.edges[e].end}
        /\ other_end(g, x, g.edges[x].end).err = "AttributeError"
        /\ other_end(g, y, g.edges[y].end).ret = g.edges[y].start

\* C32: while no name has been reused, node.edges holds every stored edge
\* that starts or ends at the node exactly once and no other entry, and
\* node.degree is the number of those edges: a directed self-loop, listed
\* as incoming and as outgoing, and an undirected self-loop count once.
C32_EdgesAndDegree ==
    reuses = 0 =>
        \A n \in Range(g.gn) :
            /\ \A e \in IncidentEdges(g, n) : CountIs(node_edges(g, n), e) = 1
            /\ Range(node_edges(g, n)) = IncidentEdges(g, n)
            /\ node_degree(g, n) = Cardinality(IncidentEdges(g, n))

\* a node with a directed and an undirected self-loop, of degree 2
C32_Witness ==
    /\ reuses = 0
    /\ \E n \in Range(g.gn) : \E x, y \in StoredEdges(g) :
           /\ g.edges[x].directed /\ ~g.edges[y].directed
           /\ \A e \in {x, y} : g.edges[e].start = n /\ g.edges[e].end = n
           /\ Len(g.nodes[n].inc \o g.nodes[n].out \o g.nodes[n].bi) = 3
           /\ node_degree(g, n) = 2

\* ------------------------------------------------- inspection properties
\* the keyword arguments a search may be given
Opt(S) == {<<>>} \cup {Given(x) : x \in S}
NodeQueries ==
    [name : Opt(1..SearchNodes), value : Opt(1..SearchValues)]
EdgeQueries(G) ==
    [name : Opt(SearchEdges), value : Opt(1..SearchValues),
     start : Opt({Ref(k, nm) : k \in RefKinds, nm \in DOMAIN G.gn}),
     end : Opt({Ref(k, nm) : k \in RefKinds, nm \in DOMAIN G.gn})]

\* the element o has the name and the attribute value asked for
Wanted(G, o, kwargs) ==
    /\ IsGiven(kwargs.name) => name(o) = kwargs.name[1]
    /\ IsGiven(kwargs.value) =>
           \E k \in DOMAIN G.data[o] : k = "value" /\ G.data[o][k] = kwargs.value[1]

\* the endpoint x of an edge is the node the constraint arg names
IsNamed(x, arg) == IsGiven(arg) => (IsNode(x) /\ name(x) = arg[1][2])

\* C33: search_nodes yields exactly the nodes of the graph that have the
\* name and the attribute value asked for, search_edges exactly the edges
\* of the graph that have them and that start and end at the nodes asked
\* for, given as nodes or as names; no element is yielded twice, none that
\* was removed, and the graph is left as it was.
C33_Search ==
    al.pc = "a" =>
        /\ \A kwargs \in NodeQueries :
               LET r == search_nodes(al.g, kwargs)
               IN  /\ r.err = "none" /\ r.g = al.g /\ NoDup(r.ret)
                   /\ Range(r.ret) = {n \in Range(al.g.gn) : Wanted(al.g, n, kwargs)}
        /\ \A kwargs \in EdgeQueries(al.g) :
               LET r == search_edges(al.g, kwargs)
               IN  /\ r.err = "none" /\ r.g = al.g /\ NoDup(r.ret)
                   /\ Range(r.ret) =
                          {e \in Range(al.g.ge) :
                               /\ Wanted(al.g, e, kwargs)
                               /\ IsNamed(al.g.edges[e].start, kwargs.start)
                               /\ IsNamed(al.g.edges[e].end, kwargs.end)}

\* C34: get_common_edges(n1, n2), each given as a node of the graph or as
\* its name, returns exactly the stored edges that start or end at n1 and
\* start or end at n2 (for n1 = n2 every edge at that node, self-loops
\* included) and leaves the graph as it was; with an argument that names
\* nothing in the graph it raises KeyError.
C34_CommonEdges ==
    al.pc = "a" =>
        \A a, b \in 1..(SearchNodes + SearchEdgeNames) : \A ka, kb \in RefKinds :
            LET r == get_common_edges(al.g, Ref(ka, a), Ref(kb, b))
            IN  /\ r.g = al.g
                /\ IF a \in DOMAIN al.g.gn /\ b \in DOMAIN al.g.gn
                   THEN /\ r.err = "none"
                        /\ r.ret = IncidentEdges(al.g, al.g.gn[a]) \cap IncidentEdges(al.g, al.g.gn[b])
                   ELSE (~contains_name(al.g, a) \/ ~contains_name(al.g, b)) => r.err = "KeyError"

\* C35: in depth_first_traversal of a graph that is not changed meanwhile,
\* whenever the node just yielded has an out-neighbour that was not yielded
\* yet, the node yielded next is one of its out-neighbours.
C35_DepthFirstOrder ==
    (tr.sel = "dfs" /\ Undisturbed) =>
        \A i \in 1..(Len(tr.yielded) - 1) :
            (\E n \in Succ(g, tr.yielded[i]) : \A j \in 1..i : tr.yielded[j] # n)
                => tr.yielded[i + 1] \in Succ(g, tr.yielded[i])

\* C36: one transpose() exchanges start and end of every directed edge and
\* lists it exactly once as outgoing at its new start, once as incoming at
\* its new end and nowhere else; every undirected edge keeps its two
\* endpoints and is listed exactly once in the bidirectional list of each
\* (once in all for a loop); names and direction flags are as before.
C36_Transpose ==
    /\ Building =>
           LET r == transpose(g)
           IN  /\ r.err = "none"
               /\ r.g.gn = g.gn /\ r.g.ge = g.ge
               /\ \A e \in StoredEdges(g) :
                      /\ r.g.edges[e].directed = g.edges[e].directed
                      /\ IF g.edges[e].directed
                         THEN /\ r.g.edges[e].start = g.edges[e].end
                              /\ r.g.edges[e].end = g.edges[e].start
                              /\ DirectedListed(r.g, e)
                         ELSE /\ {r.g.edges[e].start, r.g.edges[e].end}
                                     = {g.edges[e].start, g.edges[e].end}
                              /\ UndirectedListed(r.g, e)
    /\ (last.op = "transpose" /\ last.err = "none") =>
           \A e \in StoredEdges(g) :
               IF g.edges[e].directed THEN DirectedListed(g, e) ELSE UndirectedListed(g, e)

\* transpose() has returned on a graph with a directed edge between two
\* nodes and an undirected edge or loop
C36_Witness ==
    /\ last.op = "transpose" /\ last.err = "none"
    /\ \E x, y \in StoredEdges(g) :
           /\ g.edges[x].directed /\ g.edges[x].start # g.edges[x].end
           /\ ~g.edges[y].directed
           /\ Occ(g, g.edges[x].start, "out", x) = 1

\* -------------------------------------------------- acyclic properties
\* the nodes some path of at least one stored edge leads to from n
RECURSIVE DagReach(_, _)
DagReach(D, S) ==
    LET T == S \cup {D.edges[i][2] : i \in {j \in 1..Len(D.edges) : D.edges[j][1] \in S}}
    IN  IF T = S THEN S ELSE DagReach(D, T)
DagAfter(D, n) == DagReach(D, {D.edges[i][2] : i \in {j \in 1..Len(D.edges) : D.edges[j][1] = n}})

\* C37: in a DirectedAcyclicGraph add_edge(start, end) raises
\* EdgeInitializationError and stores nothing when start is end or is
\* reachable from end, and stores the edge otherwise; the stored edges
\* never contain a directed cycle.
C37_Acyclic ==
    /\ \A n \in 1..dag.made : n \notin DagAfter(dag, n)
    /\ \A start \in 1..dag.made, end \in 1..dag.made :
           LET r == acyclic_add_edge(dag, start, end)
           IN  IF start = end \/ start \in DagAfter(dag, end)
               THEN r.err = "EdgeInitializationError" /\ r.edges = dag.edges /\ r.nodes = dag.nodes
               ELSE r.err = "none" /\ r.nodes = dag.nodes
                    /\ r.edges = Append(dag.edges, <<start, end, dag.emade + 1>>)

\* an add_edge that would have closed a cycle through two stored edges was
\* refused
C37_Witness ==
    /\ dag.err = "EdgeInitializationError"
    /\ Len(dag.edges) >= 2
    /\ dag.arg[1] # dag.arg[2]
    /\ \A i \in 1..Len(dag.edges) : <<dag.edges[i][1], dag.edges[i][2]>> # <<dag.arg[2], dag.arg[1]>>

\* ------------------------------------------- C38: adjacency under reuse
AdjacencyFields == {"inc", "out", "bi"}

\* every entry of a stored node's lists is an edge object of the edge store
EntriesStored(G) ==
    \A n \in Range(G.gn), f \in AdjacencyFields :
        \A i \in 1..Len(G.nodes[n][f]) : G.nodes[n][f][i] \in Range(G.ge)

\* no list of a stored node holds two entries of one name
NoTwinEntries(G) ==
    \A n \in Range(G.gn), f \in AdjacencyFields :
        \A i, j \in 1..Len(G.nodes[n][f]) :
            i # j => name(G.nodes[n][f][i]) # name(G.nodes[n][f][j])

\* remove_node succeeds for every node of the graph, however it is named
\* in the call and in whatever order its edges are removed
RemovableNodes(G) ==
    \A n \in Range(G.gn), k \in RefKinds :
        \A ord \in RemoveOrders(G, Ref(k, name(n))) :
            remove_node(G, Ref(k, name(n)), ord).err = "none"

\* no node of the graph carries the name of one of its edges
NoSharedName(G) == (DOMAIN G.gn) \cap (DOMAIN G.ge) = {}

\* C38: in every state reached by add_node, add_edge, remove_edge and
\* remove_node, add_edge calls that reuse the name of a stored edge
\* included, every entry of a stored node's incoming, outgoing and
\* bidirectional list is an edge object of the edge store, no list holds
\* two entries of one name and remove_node succeeds for every node
\* (stated for the graphs in which no node shares a name with an edge)
C38_AdjacencyStored ==
    NoSharedName(al.g) =>
        /\ EntriesStored(al.g)
        /\ NoTwinEntries(al.g)
        /\ RemovableNodes(al.g)

\* ------------------------------------ C39: the graphs the algebra returns
\* the edge e of the graph is listed once in the proper list of each of
\* its endpoints, which are nodes of the graph, and nowhere else in it
ProperlyListed(G, e) ==
    /\ G.edges[e].start \in Range(G.gn)
    /\ G.edges[e].end \in Range(G.gn)
    /\ \A n \in Range(G.gn) :
           LET isStart == (n = G.edges[e].start)
               isEnd == (n = G.edges[e].end)
           IN  IF G.edges[e].directed
               THEN /\ Occ(G, n, "out", e) = Bit(isStart)
                    /\ Occ(G, n, "inc", e) = Bit(isEnd)
                    /\ Occ(G, n, "bi", e) = 0
               ELSE /\ Occ(G, n, "bi", e) = Bit(isStart \/ isEnd)
                    /\ Occ(G, n, "out", e) = 0
                    /\ Occ(G, n, "inc", e) = 0

SetOperations == {"union", "intersection", "difference"}

\* C39: every graph returned by union, intersection and difference is
\* internally consistent: each edge of its edge store is listed exactly
\* once in the proper adjacency list of each of its endpoints, the
\* endpoints are node objects of the returned graph, and no adjacency list
\* holds an entry that is not the stored edge object, also when both
\* operands contain an element of the same name
C39_ResultConsistent ==
    (al.pc = "done" /\ al.op \in SetOperations /\ al.err = "none") =>
        /\ \A e \in Range(al.g.ge) : ProperlyListed(al.g, e)
        /\ EntriesStored(al.g)

\* ------------------------------------- C40: names of nodes and of edges
\* the names a node and an edge of the graph both carry
SharedNames(G) == (DOMAIN G.gn) \cap (DOMAIN G.ge)

\* add_edge from the node named nm to the node named other attached the
\* new edge to those nodes, or changed nothing
AttachedOrNothing(G, r, nm, other) ==
    \/ r.g = G
    \/ /\ r.err = "none"
       /\ r.g.edges[r.ret].start = G.gn[nm]
       /\ r.g.edges[r.ret].end = G.gn[other]
       /\ ListContains(node_edges(r.g, G.gn[nm]), r.ret)
       /\ ListContains(node_edges(r.g, G.gn[other]), r.ret)

\* C40: node and edge names are independent: when a node and an edge of
\* one graph carry the same name, add_edge and remove_node given that
\* name, or the node itself, resolve it to the node, as the lookup g[name]
\* does, and such an add_edge either attaches the new edge to the named
\* nodes or changes nothing
C40_NamesIndependent ==
    \A nm \in SharedNames(al.g), k \in RefKinds :
        /\ get_element(al.g, Ref(k, nm)).ret = getitem(al.g, nm).ret
        /\ \A ord \in RemoveOrders(al.g, Ref(k, nm)) :
               LET r == remove_node(al.g, Ref(k, nm), ord)
               IN  r.err = "none" /\ nm \notin DOMAIN r.g.gn
        /\ \A other \in DOMAIN al.g.gn, new \in SearchEdges, dir \in BOOLEAN :
               CanAlloc(al.g, "e", new) =>
                   AttachedOrNothing(al.g, add_edge(al.g, Ref(k, nm), Ref(k, other), new, dir),
                                     nm, other)
====
